---- MODULE Spec2Model ----
(***************************************************************************)
(* A model of the forest IoT platform: the shadow state engine, the Store  *)
(* transaction around it, connect-time authentication, the shadow-update   *)
(* handler of the processor and the two bounded channels of the MQTT       *)
(* broker adapter.                                                         *)
(***************************************************************************)
EXTENDS Integers, Sequences, FiniteSets, TLC

VARIABLES
    \* --- shadow engine (one shadow, updated sequentially) ---
    shadow,       \* the Shadow value
    lastUpdate,   \* the last StateUpdateDocument handed to Shadow::update, or NoUpdate
    lastResult,   \* "none" | "ok" | the ShadowError of the last update
    prevShadow,   \* the Shadow as it was before the last update
    now,          \* wall clock, in seconds
    \* --- Store: the shadows table and the _upsert_shadow calls in flight ---
    backend,      \* "sqlite" | "postgres": the driver DatabaseConfig.path selects
    shadows,      \* committed rows of table shadows: key -> Shadow or NoRow
    tx,           \* call id -> the state of that _upsert_shadow call
    returns,      \* key -> the versions returned by successful calls, in order
    \* --- connect-time authentication ---
    globalDb,     \* TRUE once start_broker has set GLOBAL_DB
    tenants,      \* table tenants: tenant id -> Tenant or NoTenant
    credentials,  \* table device_credentials: a set of DeviceCredential rows
    authCall,     \* the last call of auth: its arguments and its result, or NoCall
    \* --- the command channel behind MqttSender (flume::bounded(400)) ---
    channel,      \* the commands queued between MqttSender and mqtt_send_handler
    receiverAlive,\* TRUE while mqtt_send_handler holds publish_receiver
    callers,      \* publisher -> "idle" | "ok" | "err" | "blocked": its last publish
    messages_sent,\* MqttServerMetrics.messages_sent
    \* --- the shadow-update handler of the processor ---
    handlerRun,   \* the last run of handle_shadow_update, or NoRun
    \* --- the inbound channel (flume::bounded(200)) ---
    inbound,      \* the messages queued between mqtt_message_handler and the consumer
    inboundAlive, \* TRUE while the consumer holds message_receiver
    forwarder,    \* position of mqtt_message_handler: "ready" | "blocked"
    notifications,      \* Forward notifications mqtt_message_handler has taken
    messages_forwarded, \* MqttServerMetrics.messages_forwarded
    messages_dropped,   \* MqttServerMetrics.messages_dropped
    received,     \* messages the consumer has taken from the inbound channel
    \* --- supervision and cancellation ---
    brokerToken,  \* cancel_token of start_broker, the token start_server returns
    apiToken,     \* cancel_token of start_api_server
    brokerThread, \* the broker thread: "running" | "returned" | "panicked"
    tasks,        \* adapter task -> "running" | "blocked" | "returned" | "aborted" | "absent"
    supervisor,   \* start_event_handlers: "running" | "ok" | "err"
    exitedEarly,  \* TRUE once an adapter task has exited while brokerToken was not tripped
    linker,       \* the task start_server spawns around both tokens: "waiting" | the branch it took
    apiServer,    \* the HTTP server: "serving" | "shutting_down"
    procTasks,    \* processor task -> "running" | "returned"
    adminLink,    \* the admin link of the broker: "open" | "closed"
    \* --- dispatch of admin-stream messages ---
    config,       \* the ProcessorConfig: shadow_topic_prefix and telemetry_topics
    dispatched,   \* one record per publish taken from the admin stream, in order
    pending,      \* the handler tasks spawned and not yet finished
    handlerErrors,\* number of handler errors logged
    \* --- topic classification ---
    topicIn,      \* the topic handed to get_topic_type, or NoTopic
    topicOut,     \* the TopicType it returned, or NoType
    \* --- the connection monitor ---
    statusChannel,     \* the ClientStatus events sent and not yet received by the monitor
    emitted,           \* every ClientStatus event sent on the broadcast, in order
    lagged,            \* TRUE once an event was sent that the monitor will not receive
    connected_clients, \* the ConnectionSet
    \* --- data configs ---
    data_configs, \* table data_configs: a set of rows (tenant_id, device_prefix, config)
    dataCall,     \* the last call made on the table as it is now, or NoDataCall
    \* --- time series ---
    timeseries_data, \* table timeseries_data: its rows, in the order of their INSERTs
    tsCall,       \* the last query made on the table as it is now, or NoTsCall
    \* --- device provisioning ---
    device_metadata, \* table device_metadata: (tenant_id, device_id) -> metadata or NoMetadata
    provision,    \* call id -> the state of that create_device call
    \* --- the HTTP API ---
    httpCall      \* the last request a shadow route has served, or NoHttpCall

engineVars == <<shadow, lastUpdate, lastResult, prevShadow>>
storeVars == <<backend, shadows, tx, returns>>
authVars == <<globalDb, tenants, credentials, authCall>>
chanVars == <<channel, receiverAlive, callers, messages_sent>>
inVars == <<inbound, inboundAlive, forwarder, notifications, messages_forwarded,
            messages_dropped, received>>
cancelVars == <<brokerToken, apiToken, brokerThread, tasks, supervisor, exitedEarly,
                linker, apiServer, procTasks, adminLink>>
dispatchVars == <<config, dispatched, pending, handlerErrors>>
topicVars == <<topicIn, topicOut>>
monitorVars == <<statusChannel, emitted, lagged, connected_clients>>
dataVars == <<data_configs, dataCall>>
seriesVars == <<timeseries_data, tsCall>>
provisionVars == <<device_metadata, provision>>
httpVars == <<httpCall>>
lateVars == <<seriesVars, provisionVars, httpVars>>
extraVars == <<monitorVars, dataVars, lateVars>>
sysVars == <<cancelVars, dispatchVars, topicVars, extraVars>>
brokerVars == <<authVars, chanVars, handlerRun, inVars, sysVars>>
vars == <<shadow, lastUpdate, lastResult, prevShadow, now, backend, shadows, tx, returns,
          globalDb, tenants, credentials, authCall, channel, receiverAlive, callers,
          messages_sent, handlerRun, inbound, inboundAlive, forwarder, notifications,
          messages_forwarded, messages_dropped, received, brokerToken, apiToken,
          brokerThread, tasks, supervisor, exitedEarly, linker, apiServer, procTasks,
          adminLink, config, dispatched, pending, handlerErrors, topicIn, topicOut, statusChannel, emitted, lagged, connected_clients,
          data_configs, dataCall, timeseries_data, tsCall, device_metadata, provision,
          httpCall>>

(***************************************************************************)
(* Bounds of the model.                                                    *)
(***************************************************************************)
MaxUpdates == 2
MaxCalls == 2

(***************************************************************************)
(* JSON values (serde_json::Value): a tagged variant.                      *)
(***************************************************************************)
JNull == [t |-> "null"]
Undefined == [t |-> "undef"]
JNum(n) == [t |-> "num", v |-> n]
JArr(s) == [t |-> "arr", v |-> s]
JObj(f) == [t |-> "obj", v |-> f]
EmptyFn == [k \in {} |-> JNull]
EmptyObj == JObj(EmptyFn)

IsObj(j) == j.t = "obj"
IsNull(j) == j.t = "null"

\* Value::get(k) on an object; Undefined otherwise
Get(j, k) == IF IsObj(j) /\ k \in DOMAIN j.v THEN j.v[k] ELSE Undefined

(***************************************************************************)
(* The merge algorithm of the shadow engine, applied to one side           *)
(* (reported or desired) and its metadata.  Result: <<state, metadata>>.   *)
(***************************************************************************)
\* the keys a patch object deletes (value null) and the keys it sets
DeletedKeys(P) == {k \in DOMAIN P : IsNull(P[k])}
SetKeys(P) == DOMAIN P \ DeletedKeys(P)

MetaKeysKeepDeleted(mt, P) == DOMAIN mt \cup SetKeys(P)
\* the keys of the metadata object after the patch object P was merged
MetaKeys(mt, P) == (DOMAIN mt \ DeletedKeys(P)) \cup SetKeys(P)

LeafStampKeepOld(old, n) == IF old = Undefined THEN JNum(n) ELSE old
\* the metadata of a leaf (scalar or array) set by a patch at time n
LeafStamp(old, n) == JNum(n)

\* the merge, were a patch to replace the document it is merged into
mergeWholesale(target, patch, meta, n) ==
    IF IsNull(patch) THEN <<target, meta>> ELSE <<patch, JNum(n)>>

RECURSIVE merge(_, _, _, _)
merge(target, patch, meta, n) ==
    IF IsNull(patch) THEN <<target, meta>>
    ELSE IF IsObj(patch) THEN
        LET tg == IF IsObj(target) THEN target.v ELSE EmptyFn
            mt == IF IsObj(meta) THEN meta.v ELSE EmptyFn
            P == patch.v
            sub(k) == merge(Get(JObj(tg), k), P[k], Get(JObj(mt), k), n)
            newT == [k \in (DOMAIN tg \ DeletedKeys(P)) \cup SetKeys(P) |->
                        IF k \in SetKeys(P)
                        THEN (IF IsObj(P[k]) THEN sub(k)[1] ELSE P[k])
                        ELSE tg[k]]
            newM == [k \in MetaKeys(mt, P) |->
                        IF k \in SetKeys(P)
                        THEN (IF IsObj(P[k]) THEN sub(k)[2]
                              ELSE LeafStamp(Get(JObj(mt), k), n))
                        ELSE mt[k]]
        IN <<JObj(newT), JObj(newM)>>
    ELSE <<patch, LeafStamp(meta, n)>>

(***************************************************************************)
(* Delta recomputation.                                                    *)
(***************************************************************************)
\* the delta, were it the desired document whatever is reported
deltaWholeDesired(reported, desired) ==
    IF IsNull(desired) \/ desired = Undefined THEN JNull ELSE desired

RECURSIVE delta(_, _)
delta(reported, desired) ==
    IF IsNull(desired) \/ desired = Undefined THEN JNull
    ELSE IF IsObj(desired) THEN
        LET D == desired.v
            rv(k) == Get(reported, k)
            differ == {k \in DOMAIN D : rv(k) # D[k]}
            both(k) == IsObj(D[k]) /\ IsObj(rv(k))
            \* a nested delta is kept unless it is the empty object
            keep == {k \in differ : both(k) => delta(rv(k), D[k]) # EmptyObj}
            out == [k \in keep |-> IF both(k) THEN delta(rv(k), D[k]) ELSE D[k]]
        IN IF keep # {} THEN JObj(out) ELSE JNull
    ELSE IF desired # reported THEN desired ELSE JNull

(***************************************************************************)
(* Shadow, StateUpdateDocument and Shadow::update.                         *)
(***************************************************************************)
NoUpdate == [device_id |-> "none"]

NewShadow(device_id, shadow_name, tenant_id) ==
    [device_id |-> device_id, shadow_name |-> shadow_name, tenant_id |-> tenant_id,
     state |-> [reported |-> JNull, desired |-> JNull, delta |-> JNull],
     metadata |-> [reported |-> JNull, desired |-> JNull],
     version |-> 0, last_updated |-> 0]

StateUpdateDocument(device_id, shadow_name, tenant_id, reported, desired) ==
    [device_id |-> device_id, shadow_name |-> shadow_name, tenant_id |-> tenant_id,
     state |-> [reported |-> reported, desired |-> desired, delta |-> JNull]]

ApplyUpdateStaleDelta(s, u, n) ==
    LET r == merge(s.state.reported, u.state.reported, s.metadata.reported, n)
        d == merge(s.state.desired, u.state.desired, s.metadata.desired, n)
    IN [s EXCEPT !.state = [reported |-> r[1], desired |-> d[1],
                            delta |-> delta(s.state.reported, d[1])],
                 !.metadata = [reported |-> r[2], desired |-> d[2]],
                 !.version = s.version + 1,
                 !.last_updated = n]

\* StateDocument::update followed by the bookkeeping of Shadow::update
ApplyUpdate(s, u, n) ==
    LET r == merge(s.state.reported, u.state.reported, s.metadata.reported, n)
        d == merge(s.state.desired, u.state.desired, s.metadata.desired, n)
    IN [s EXCEPT !.state = [reported |-> r[1], desired |-> d[1],
                            delta |-> delta(r[1], d[1])],
                 !.metadata = [reported |-> r[2], desired |-> d[2]],
                 !.version = s.version + 1,
                 !.last_updated = n]

\* The precondition of Shadow::update: "ok" or the ShadowError
UpdateError(s, u) ==
    IF u.device_id # s.device_id THEN "DeviceIdMismatch"
    ELSE IF u.shadow_name # s.shadow_name THEN "ShadowNameMismatch"
    ELSE IF u.tenant_id # s.tenant_id THEN "TenantIdMismatch"
    ELSE "ok"

\* Shadow::update without its precondition
UpdateUnchecked(s, u, n) == ApplyUpdate(s, u, n)

\* Shadow::update(&mut self, update): the shadow afterwards
Update(s, u, n) == IF UpdateError(s, u) = "ok" THEN ApplyUpdate(s, u, n) ELSE s

(***************************************************************************)
(* The update documents the model draws from.                              *)
(***************************************************************************)
OuterKeys == {"a", "b"}
InnerKeys == {"x", "y"}
ObjsOver(K, V) == UNION {[S -> V] : S \in SUBSET K}
Scalars == {JNum(1), JNum(2)}
AnArray == JArr(<<1, 2>>)
\* key "x" takes every scalar or null (which deletes the key), key "y" one scalar
InnerVals(k) == IF k = "x" THEN Scalars \cup {JNull} ELSE {JNum(1)}
InnerPatches ==
    {JObj(f) : f \in {g \in ObjsOver(InnerKeys, Scalars \cup {JNull}) :
                        \A k \in DOMAIN g : g[k] \in InnerVals(k)}}
\* key "a" takes scalars, an array, null and nested objects, key "b" one scalar
OuterVals(k) ==
    IF k = "a" THEN Scalars \cup {AnArray, JNull} \cup InnerPatches
    ELSE {JNum(1)}
ObjPatches ==
    {JObj(f) : f \in {g \in ObjsOver(OuterKeys, OuterVals("a")) :
                        \A k \in DOMAIN g : g[k] \in OuterVals(k)}}
Patches == ObjPatches \cup {JNull, JNum(1)}
\* updates of both sides at once come from a smaller set
BothPatches == {JObj([k \in {"a"} |-> v]) : v \in {JNum(1), JObj([i \in {"x"} |-> JNum(1)])}}
PatchPairs == (Patches \X {JNull}) \cup ({JNull} \X Patches)
                 \cup (BothPatches \X BothPatches)

Devices == {"dev1", "dev2"}
ShadowNames == {"default", "main"}
Tenants == {"default", "acme"}

(***************************************************************************)
(* The broker adapter and the processor before start_broker has run: no    *)
(* tenant and no credential stored, both channels empty, all counters 0.   *)
(***************************************************************************)
NoTenant == [tenant_id |-> "none"]
NoCall == [client_id |-> "none"]
NoRun == [upsert |-> "none"]
NoDataCall == [op |-> "none"]
Publishers == {"handler", "heartbeat"}

\* the adapter tasks start_event_handlers supervises, and the processor's tasks
AdapterTasks == {"forwarder", "sender", "alerts", "meters", "heartbeat"}
ProcessorTasks == {"stream_worker", "connection_monitor"}
NoTopic == <<"none">>
NoType == [type |-> "none"]
\* ProcessorConfig::default(); a string is the sequence of its pieces, "/" and
\* "." being pieces of their own
DefaultProcessorConfig ==
    [shadow_topic_prefix |-> <<"things", "/">>,
     telemetry_topics |-> << <<"things", "/", "+", "/", "data">> >>]

CancelIdle ==
    /\ brokerToken = FALSE
    /\ apiToken = FALSE
    /\ brokerThread = "running"
    /\ tasks = [t \in AdapterTasks |-> IF t = "heartbeat" THEN "absent" ELSE "running"]
    /\ supervisor = "running"
    /\ exitedEarly = FALSE
    /\ linker = "waiting"
    /\ apiServer = "serving"
    /\ procTasks = [t \in ProcessorTasks |-> "running"]
    /\ adminLink = "open"

NothingDispatched ==
    /\ dispatched = <<>>
    /\ pending = {}
    /\ handlerErrors = 0

NothingClassified ==
    /\ topicIn = NoTopic
    /\ topicOut = NoType

MonitorIdle ==
    /\ statusChannel = <<>>
    /\ emitted = <<>>
    /\ lagged = FALSE
    /\ connected_clients = {}

NoDataConfigs ==
    /\ data_configs = {}
    /\ dataCall = NoDataCall

NoTsCall == [op |-> "none"]
MaxProvisions == 3
ProvisionCalls == 1..MaxProvisions
\* (tenant_id, device_id), the primary key of table device_metadata
DeviceKeys == {<<"default", "dev1">>, <<"acme", "dev1">>}
NoMetadata == [device_id |-> "none"]
NoHttpCall == [method |-> "none"]
LateIdle ==
    /\ timeseries_data = <<>>
    /\ tsCall = NoTsCall
    /\ device_metadata = [k \in DeviceKeys |-> NoMetadata]
    /\ provision = [c \in ProvisionCalls |-> [pc |-> "idle"]]
    /\ httpCall = NoHttpCall

ExtraIdle == MonitorIdle /\ NoDataConfigs /\ LateIdle

SysIdle ==
    /\ ExtraIdle
    /\ CancelIdle
    /\ config = DefaultProcessorConfig
    /\ NothingDispatched
    /\ NothingClassified

AdapterIdle ==
    /\ globalDb = FALSE
    /\ tenants = [t \in Tenants |-> NoTenant]
    /\ credentials = {}
    /\ authCall = NoCall
    /\ channel = <<>>
    /\ receiverAlive = TRUE
    /\ callers = [c \in Publishers |-> "idle"]
    /\ messages_sent = 0
    /\ handlerRun = NoRun
    /\ inbound = <<>>
    /\ inboundAlive = TRUE
    /\ forwarder = "ready"
    /\ notifications = 0
    /\ messages_forwarded = 0
    /\ messages_dropped = 0
    /\ received = 0

BrokerIdle == SysIdle /\ AdapterIdle

(***************************************************************************)
(* The Store: table shadows and DB::_upsert_shadow, one SQL statement per  *)
(* step.  pool.begin() opens a transaction on one of the pool's            *)
(* connections; the code sets no isolation level and takes no lock, so the *)
(* driver's default applies: SQLite lets one writer in and refuses a write *)
(* from a stale read snapshot, PostgreSQL runs READ COMMITTED.             *)
(***************************************************************************)
NoRow == [device_id |-> "none"]
Backends == {"sqlite", "postgres"}
\* (tenant_id, device_id, shadow_name), the primary key of table shadows
StoreKeys == {<<"default", "dev1", "default">>, <<"acme", "dev1", "main">>}
Calls == 1..MaxCalls
\* reported and desired of the update documents of the calls
StorePatches ==
    {<<JObj([k \in {"a"} |-> JNum(1)]), JNull>>,
     <<JNull, JObj([k \in {"a"} |-> JNum(2)])>>,
     <<JObj([k \in {"b"} |-> JNum(1)]), JNull>>}

IdleCall == [pc |-> "idle"]
KeyOf(u) == <<u.tenant_id, u.device_id, u.shadow_name>>
InFlight(t) == tx[t].pc \in {"begun", "selected", "deleted", "inserted"}
\* the other calls holding an open transaction on the key of call t
Others(t) == {o \in Calls \ {t} : InFlight(o) /\ tx[o].key = tx[t].key}

StoreIdle ==
    /\ backend = "sqlite"
    /\ shadows = [k \in StoreKeys |-> NoRow]
    /\ tx = [t \in Calls |-> IdleCall]
    /\ returns = [k \in StoreKeys |-> <<>>]

StoreInit ==
    /\ backend \in Backends
    /\ shadows = [k \in StoreKeys |-> NoRow]
    /\ tx = [t \in Calls |-> IdleCall]
    /\ returns = [k \in StoreKeys |-> <<>>]
    /\ shadow = NoRow
    /\ prevShadow = NoRow
    /\ lastUpdate = NoUpdate
    /\ lastResult = "none"
    /\ now = 1
    /\ BrokerIdle

\* let mut tx = pool.begin().await?
TxBegin(t) ==
    /\ tx[t].pc = "idle"
    /\ \E k \in StoreKeys, pp \in StorePatches :
         tx' = [tx EXCEPT ![t] =
                  [pc |-> "begun", key |-> k,
                   update |-> StateUpdateDocument(k[2], k[3], k[1], pp[1], pp[2]),
                   shadow |-> NoRow, deleted |-> FALSE, stale |-> FALSE]]
    /\ UNCHANGED <<engineVars, now, backend, shadows, returns, brokerVars>>

\* SELECT data FROM shadows WHERE ...; Shadow::from_json or Shadow::new;
\* shadow.update(update)?; shadow.to_json()
TxSelect(t) ==
    /\ tx[t].pc = "begun"
    /\ LET k == tx[t].key
           row == IF shadows[k] = NoRow THEN NewShadow(k[2], k[3], k[1]) ELSE shadows[k]
       IN tx' = [tx EXCEPT ![t].pc = IF UpdateError(row, tx[t].update) = "ok"
                                      THEN "selected" ELSE "failed",
                            ![t].shadow = Update(row, tx[t].update, now)]
    /\ UNCHANGED <<engineVars, now, backend, shadows, returns, brokerVars>>

\* DELETE FROM shadows WHERE ...: the first write of the transaction.
\* SQLite: waits while another transaction writes; SQLITE_BUSY when a commit
\* has followed this transaction's read.  PostgreSQL: waits while another
\* transaction holds the row it deleted; deletes the row committed by now.
TxDelete(t) ==
    /\ tx[t].pc = "selected"
    /\ IF backend = "sqlite"
       THEN /\ \A o \in Calls \ {t} : tx[o].pc \notin {"deleted", "inserted"}
            /\ tx' = [tx EXCEPT ![t].pc = IF tx[t].stale THEN "failed" ELSE "deleted"]
       ELSE /\ \A o \in Others(t) : ~tx[o].deleted
            /\ tx' = [tx EXCEPT ![t].pc = "deleted",
                                 ![t].deleted = (shadows[tx[t].key] # NoRow)]
    /\ UNCHANGED <<engineVars, now, backend, shadows, returns, brokerVars>>

\* INSERT INTO shadows ...  PostgreSQL: waits for a transaction that has
\* written the key; a committed row this transaction did not delete violates
\* the primary key.
TxInsert(t) ==
    /\ tx[t].pc = "deleted"
    /\ IF backend = "sqlite"
       THEN tx' = [tx EXCEPT ![t].pc = "inserted"]
       ELSE /\ \A o \in Others(t) : ~tx[o].deleted /\ tx[o].pc # "inserted"
            /\ tx' = [tx EXCEPT ![t].pc =
                         IF shadows[tx[t].key] # NoRow /\ ~tx[t].deleted
                         THEN "failed" ELSE "inserted"]
    /\ UNCHANGED <<engineVars, now, backend, shadows, returns, brokerVars>>

\* the row that a committing call leaves in the table
CommittedRow(t) == tx[t].shadow

\* tx.commit().await?; Ok(shadow)
TxCommit(t) ==
    /\ tx[t].pc = "inserted"
    /\ shadows' = [shadows EXCEPT ![tx[t].key] = CommittedRow(t)]
    /\ returns' = [returns EXCEPT ![tx[t].key] = Append(@, tx[t].shadow.version)]
    /\ tx' = [o \in Calls |->
                IF o = t THEN [tx[t] EXCEPT !.pc = "committed"]
                ELSE IF InFlight(o) THEN [tx[o] EXCEPT !.stale = (tx[o].pc # "begun")]
                ELSE tx[o]]
    /\ UNCHANGED <<engineVars, now, backend, brokerVars>>

\* any statement may end in a sqlx::Error (lost connection, busy timeout):
\* the ? operator returns and dropping tx rolls the transaction back
TxFail(t) ==
    /\ InFlight(t)
    /\ tx' = [tx EXCEPT ![t].pc = "failed"]
    /\ UNCHANGED <<engineVars, now, backend, shadows, returns, brokerVars>>

StoreNext ==
    \E t \in Calls :
        TxBegin(t) \/ TxSelect(t) \/ TxDelete(t) \/ TxInsert(t) \/ TxCommit(t) \/ TxFail(t)

SpecStore == StoreInit /\ [][StoreNext]_vars

(***************************************************************************)
(* Specification SpecEngine: one shadow, created by Shadow::new and then   *)
(* updated by a sequence of Shadow::update calls.                          *)
(***************************************************************************)
EngineInit ==
    /\ StoreIdle
    /\ shadow = NewShadow("dev1", "default", "default")
    /\ prevShadow = NewShadow("dev1", "default", "default")
    /\ lastUpdate = NoUpdate
    /\ lastResult = "none"
    /\ now = 1
    /\ BrokerIdle

EngineUpdate ==
    /\ shadow.version < MaxUpdates
    /\ \E pp \in PatchPairs :
         LET u == StateUpdateDocument("dev1", "default", "default", pp[1], pp[2])
         IN /\ lastUpdate' = u
            /\ lastResult' = UpdateError(shadow, u)
            /\ prevShadow' = shadow
            /\ shadow' = Update(shadow, u, now)
    /\ UNCHANGED <<now, storeVars, brokerVars>>

\* an update that names another device, shadow or tenant
EngineUpdateMismatch ==
    /\ shadow.version < MaxUpdates
    /\ \E dev \in Devices, sn \in ShadowNames, tn \in Tenants :
         LET u == StateUpdateDocument(dev, sn, tn, JObj([k \in {"a"} |-> JNum(1)]), JNull)
         IN /\ UpdateError(shadow, u) # "ok"
            /\ lastUpdate' = u
            /\ lastResult' = UpdateError(shadow, u)
            /\ prevShadow' = shadow
            /\ shadow' = Update(shadow, u, now)
    /\ UNCHANGED <<now, storeVars, brokerVars>>

\* a second passes; the clock runs at most one second ahead of the updates
Tick ==
    /\ shadow.version < MaxUpdates
    /\ now <= shadow.version
    /\ now' = now + 1
    /\ UNCHANGED <<engineVars, storeVars, brokerVars>>

EngineNext == EngineUpdate \/ EngineUpdateMismatch \/ Tick

SpecEngine == EngineInit /\ [][EngineNext]_vars

(***************************************************************************)
(* Paths into JSON documents, for the statements about leaves.             *)
(***************************************************************************)
\* the paths of j that end in a value that is not an object
RECURSIVE Leaves(_)
Leaves(j) ==
    IF IsObj(j) THEN UNION {{<<k>> \o p : p \in Leaves(j.v[k])} : k \in DOMAIN j.v}
    ELSE {<<>>}

\* the leaves of a state or metadata document; a null document has none
DocLeaves(j) == IF IsNull(j) THEN {} ELSE Leaves(j)

\* the value of j at a path, or Undefined
RECURSIVE ValAt(_, _)
ValAt(j, p) == IF p = <<>> THEN j ELSE ValAt(Get(j, Head(p)), Tail(p))

(***************************************************************************)
(* C1: after every successful update, in any sequence of updates of a new  *)
(* shadow, state.delta is the delta function applied to the reported and   *)
(* desired documents the update left: the delta is never stale.            *)
(***************************************************************************)
C1_DeltaNeverStale ==
    shadow.state.delta = delta(shadow.state.reported, shadow.state.desired)

\* a second update has changed a delta that was already there
C1_Witness ==
    /\ shadow.version = 2
    /\ lastResult = "ok"
    /\ ~IsNull(prevShadow.state.delta)
    /\ ~IsNull(shadow.state.delta)
    /\ shadow.state.delta # prevShadow.state.delta

(***************************************************************************)
(* C5: after any sequence of updates the metadata of each side holds a     *)
(* timestamp at exactly the paths where the state of that side has a leaf  *)
(* (a scalar, or an array as one leaf): every state leaf has a timestamp   *)
(* and no metadata entry is left for a path the state does not have.       *)
(***************************************************************************)
MetaMirrors(st, mt) ==
    /\ DocLeaves(mt) = DocLeaves(st)
    /\ \A p \in DocLeaves(mt) : ValAt(mt, p).t = "num"

C5_MetadataMirrorsState ==
    /\ MetaMirrors(shadow.state.reported, shadow.metadata.reported)
    /\ MetaMirrors(shadow.state.desired, shadow.metadata.desired)

\* the last update deleted a nested key and replaced nothing else: the
\* array under "a" before it has become an object, or a key is gone
C5_Witness ==
    /\ shadow.version = 2
    /\ lastResult = "ok"
    /\ DocLeaves(prevShadow.state.reported) # {}
    /\ DocLeaves(shadow.state.reported) # DocLeaves(prevShadow.state.reported)
    /\ \E p \in DocLeaves(prevShadow.state.reported) : p \notin DocLeaves(shadow.state.reported)
    /\ \E p \in DocLeaves(shadow.state.reported) : ValAt(shadow.state.reported, p) = AnArray

(***************************************************************************)
(* C6: merging a patch in which key k is null removes k from the state and *)
(* from the metadata at that level; merging a scalar or an array at key k  *)
(* sets the state at k to the patch value and the metadata at k to the     *)
(* time of the update.                                                     *)
(***************************************************************************)
RECURSIVE PatchApplied(_, _, _, _)
PatchApplied(patch, st, mt, n) ==
    IF ~IsObj(patch) THEN TRUE
    ELSE \A k \in DOMAIN patch.v :
           IF IsNull(patch.v[k])
           THEN Get(st, k) = Undefined /\ Get(mt, k) = Undefined
           ELSE IF IsObj(patch.v[k])
           THEN PatchApplied(patch.v[k], Get(st, k), Get(mt, k), n)
           ELSE Get(st, k) = patch.v[k] /\ Get(mt, k) = JNum(n)

C6_NullRemovesLeafSets ==
    lastResult = "ok" =>
        /\ PatchApplied(lastUpdate.state.reported, shadow.state.reported,
                        shadow.metadata.reported, shadow.last_updated)
        /\ PatchApplied(lastUpdate.state.desired, shadow.state.desired,
                        shadow.metadata.desired, shadow.last_updated)

\* one patch deleted the nested key x that was there and set its sibling y,
\* a second later than the update before it
C6_Witness ==
    /\ lastResult = "ok"
    /\ shadow.version = 2
    /\ shadow.last_updated > prevShadow.last_updated
    /\ ValAt(prevShadow.state.reported, <<"a", "x">>) \in Scalars
    /\ ValAt(lastUpdate.state.reported, <<"a", "x">>) = JNull
    /\ ValAt(lastUpdate.state.reported, <<"a", "y">>) = JNum(1)

(***************************************************************************)
(* C7: the delta is a subset of desired: every leaf of the delta sits at a *)
(* path where desired has the same value and reported has another value or *)
(* none, and every desired leaf whose value differs from reported at the   *)
(* same path appears in the delta.                                         *)
(***************************************************************************)
DeltaIsSubsetOfDesired(rep, des, dl) ==
    /\ \A p \in DocLeaves(dl) :
          /\ ValAt(des, p) = ValAt(dl, p)
          /\ ValAt(rep, p) # ValAt(des, p)
    /\ \A p \in DocLeaves(des) :
          ValAt(rep, p) # ValAt(des, p) => ValAt(dl, p) = ValAt(des, p)

C7_DeltaSubsetOfDesired ==
    DeltaIsSubsetOfDesired(shadow.state.reported, shadow.state.desired,
                           shadow.state.delta)

(***************************************************************************)
(* C2: concurrent upsert_shadow calls on one (tenant, device, shadow_name) *)
(* leave what applying the same updates one at a time in some order        *)
(* leaves: no update is lost, and the version is the starting version plus *)
(* the number of calls that succeeded.                                     *)
(***************************************************************************)
Committed(k) == {t \in Calls : tx[t].pc = "committed" /\ tx[t].key = k}
Orders(S) == {f \in [1..Cardinality(S) -> S] : \A i, j \in DOMAIN f : i # j => f[i] # f[j]}

\* the shadow of key k after the first i updates of an order, one at a time
RECURSIVE Replay(_, _, _)
Replay(k, order, i) ==
    IF i = 0 THEN NewShadow(k[2], k[3], k[1])
    ELSE Update(Replay(k, order, i - 1), tx[order[i]].update, now)

C2_UpsertsSerialize ==
    \A k \in StoreKeys :
        IF Committed(k) = {} THEN shadows[k] = NoRow
        ELSE /\ shadows[k] # NoRow
             /\ shadows[k].version = Cardinality(Committed(k))
             /\ \E order \in Orders(Committed(k)) :
                   shadows[k] = Replay(k, order, Cardinality(Committed(k)))

(***************************************************************************)
(* C3: each successful update of a shadow raises its version by exactly 1: *)
(* per (tenant, device, shadow_name) the versions that successive          *)
(* successful upsert_shadow calls return are strictly increasing.          *)
(***************************************************************************)
C3_VersionsStrictlyIncrease ==
    \A k \in StoreKeys :
        \A i, j \in DOMAIN returns[k] : i < j => returns[k][i] < returns[k][j]

(***************************************************************************)
(* Connect-time authentication: mqtt::auth::auth and the Store functions   *)
(* it reads, get_tenant and verify_device_password.                        *)
(***************************************************************************)
AuthConfigs == [allow_passwords : BOOLEAN, allow_certificates : BOOLEAN]
\* impl Default for AuthConfig
DefaultAuthConfig == [allow_passwords |-> FALSE, allow_certificates |-> TRUE]
\* a new tenant, were its policy to allow passwords as well
TenantNewAllowingPasswords(tenant_id) ==
    [tenant_id |-> tenant_id,
     auth_config |-> [allow_passwords |-> TRUE, allow_certificates |-> TRUE]]
\* Tenant::new(tenant_id)
TenantNew(tenant_id) == [tenant_id |-> tenant_id, auth_config |-> DefaultAuthConfig]

\* the arguments the broker hands to auth
ClientIds == {"dev1", "dev2"}
Usernames == {"", "u1"}
Passwords == {"pw1", "pw2"}
CommonNames == {"", "dev1"}
Organizations == {"", "acme", "Default"}

\* str::to_lowercase over the organization names above
ToLower(s) == IF s = "Default" THEN "default" ELSE s
\* DefaultString::new: any casing of "default" is the Default tenant
TenantIdFromStr(s) == IF ToLower(s) = "default" THEN "default" ELSE s

\* bcrypt::hash and bcrypt::verify; a stored hash may be malformed
Bcrypt(p) == [bcrypt |-> p]
MalformedHash == [bcrypt |-> "malformed"]
BcryptVerify(password, hash) ==
    IF hash = MalformedHash THEN FALSE ELSE hash.bcrypt = password

DeviceCredential(tenant_id, device_id, username, password_hash) ==
    [tenant_id |-> tenant_id, device_id |-> device_id, username |-> username,
     password_hash |-> password_hash]
SameCredentialKey(c, d) ==
    /\ c.tenant_id = d.tenant_id
    /\ c.device_id = d.device_id
    /\ c.username = d.username

\* DB::verify_device_password when the query succeeds
VerifyDevicePassword(tenant_id, device_id, username, password) ==
    \E c \in credentials :
        /\ c.tenant_id = tenant_id
        /\ c.device_id = device_id
        /\ c.username = username
        /\ BcryptVerify(password, c.password_hash)

\* the three results of auth: Ok(Some(ClientInfo)), Ok(None), Err(String)
AuthAccept(client_id, tenant_id) ==
    [kind |-> "accept", client_id |-> client_id, tenant |-> tenant_id]
AuthReject == [kind |-> "reject"]

\* an error of the Store, were it answered with Ok(None)
AuthErrAsRefusal(msg) == AuthReject
AuthErr(msg) == [kind |-> "err", msg |-> msg]

\* the certificate branch accepts every matching common name
CertificateAllowedIgnoringPolicy(auth_config, client_id, common_name) ==
    client_id = common_name
\* the certificate branch: allow_certificates, then client_id = common_name
CertificateAllowed(auth_config, client_id, common_name) ==
    auth_config.allow_certificates /\ client_id = common_name

\* auth(client_id, username, password, common_name, organization, _); env says
\* which of the two Store queries, if any, fails
AuthResult(r, env) ==
    IF ~globalDb THEN AuthErr("Internal Server Error")
    ELSE LET tenant_str == IF r.organization # "" THEN r.organization ELSE "default"
             tenant_id == TenantIdFromStr(tenant_str)
         IN IF env = "get_tenant_fails" THEN AuthErr("DB Error")
            ELSE LET tenant == IF tenants[tenant_id] = NoTenant
                                THEN TenantNew(tenant_id) ELSE tenants[tenant_id]
                     auth_config == tenant.auth_config
                 IN IF r.common_name # "" THEN
                        IF CertificateAllowed(auth_config, r.client_id, r.common_name)
                        THEN AuthAccept(r.client_id, tenant_id)
                        ELSE AuthReject
                    ELSE IF r.username # "" THEN
                        IF ~auth_config.allow_passwords THEN AuthReject
                        ELSE IF env = "verify_fails" THEN AuthErr("DB Error")
                        ELSE IF VerifyDevicePassword(tenant_id, r.client_id,
                                                     r.username, r.password)
                        THEN AuthAccept(r.client_id, tenant_id)
                        ELSE AuthReject
                    ELSE AuthReject

AuthRequests ==
    [client_id : ClientIds, username : Usernames, password : Passwords,
     common_name : CommonNames, organization : Organizations]
StoreAnswers == {"ok", "get_tenant_fails", "verify_fails"}

\* the credentials an operator provisions
ProvisionedCredentials ==
    {DeviceCredential("default", "dev1", "u1", h) : h \in {Bcrypt("pw1"), MalformedHash}}

AuthInit ==
    /\ StoreIdle
    /\ shadow = NoRow
    /\ prevShadow = NoRow
    /\ lastUpdate = NoUpdate
    /\ lastResult = "none"
    /\ now = 1
    /\ BrokerIdle

\* start_broker: GLOBAL_DB.set(db)
StartBroker ==
    /\ ~globalDb
    /\ globalDb' = TRUE
    /\ UNCHANGED <<engineVars, now, storeVars, tenants, credentials, authCall,
                   chanVars, handlerRun, inVars, sysVars>>

\* DB::put_tenant
PutTenant ==
    /\ \E t \in Tenants, cfg \in AuthConfigs :
          tenants' = [tenants EXCEPT ![t] = [tenant_id |-> t, auth_config |-> cfg]]
    /\ UNCHANGED <<engineVars, now, storeVars, globalDb, credentials, authCall,
                   chanVars, handlerRun, inVars, sysVars>>

\* DB::add_device_password: DELETE the row of the same key, INSERT the new one
AddDevicePassword ==
    /\ \E c \in ProvisionedCredentials :
          credentials' = {d \in credentials : ~SameCredentialKey(c, d)} \cup {c}
    /\ UNCHANGED <<engineVars, now, storeVars, globalDb, tenants, authCall,
                   chanVars, handlerRun, inVars, sysVars>>

\* the broker calls auth on a CONNECT
Auth ==
    /\ \E r \in AuthRequests, env \in StoreAnswers :
          authCall' = [client_id |-> r.client_id, req |-> r, env |-> env,
                       result |-> AuthResult(r, env)]
    /\ UNCHANGED <<engineVars, now, storeVars, globalDb, tenants, credentials,
                   chanVars, handlerRun, inVars, sysVars>>

AuthNext == StartBroker \/ PutTenant \/ AddDevicePassword \/ Auth

SpecAuth == AuthInit /\ [][AuthNext]_vars

(***************************************************************************)
(* C4: the connect-time decision follows the table of section 4.5.  For    *)
(* every call of auth that the Store answers: with a non-empty certificate *)
(* CN the connection is accepted exactly when the tenant's                 *)
(* allow_certificates is true and CN = client_id, whatever username and    *)
(* password are; with an empty CN and a non-empty username it is accepted  *)
(* exactly when allow_passwords is true and the stored hash of (tenant,    *)
(* client_id, username) verifies the password; with neither it is          *)
(* rejected.  An accepted connection is bound to the resolved tenant, and a *)
(* call the Store does not answer is never accepted.                       *)
(***************************************************************************)
ResolvedTenant(r) ==
    IF r.organization \in {"", "Default"} THEN "default" ELSE r.organization
TenantPolicy(t) ==
    IF tenants[t] = NoTenant THEN [allow_passwords |-> FALSE, allow_certificates |-> TRUE]
    ELSE tenants[t].auth_config
PasswordVerifies(t, r) ==
    \E c \in credentials :
        /\ <<c.tenant_id, c.device_id, c.username>> = <<t, r.client_id, r.username>>
        /\ c.password_hash = [bcrypt |-> r.password]
TableAccepts(r, env) ==
    LET t == ResolvedTenant(r)
        p == TenantPolicy(t)
    IN IF r.common_name # ""
       THEN globalDb /\ env # "get_tenant_fails"
            /\ p.allow_certificates /\ r.common_name = r.client_id
       ELSE IF r.username # ""
       THEN globalDb /\ env = "ok" /\ p.allow_passwords /\ PasswordVerifies(t, r)
       ELSE FALSE
AuthFollowsTable(call) ==
    /\ call.result.kind \in {"accept", "reject", "err"}
    /\ (call.result.kind = "accept") <=> TableAccepts(call.req, call.env)
    /\ call.result.kind = "accept" =>
          /\ call.result.client_id = call.req.client_id
          /\ call.result.tenant = ResolvedTenant(call.req)

C4_AuthDecisionTable ==
    [][authCall' # authCall => AuthFollowsTable(authCall')]_vars

\* a password connection accepted under a tenant that allows passwords, after a
\* certificate policy was stored and a credential provisioned
C4_Witness ==
    /\ authCall # NoCall
    /\ authCall.req.common_name = ""
    /\ authCall.req.username = "u1"
    /\ authCall.result.kind = "accept"
    /\ tenants["default"] # NoTenant
    /\ ~tenants["default"].auth_config.allow_certificates

(***************************************************************************)
(* The two bounded flume channels of the broker adapter.  A send outcome   *)
(* is "sent" (queued), "err" (the call returned an error) or "blocked"     *)
(* (the call has not returned: the caller waits for space).                *)
(***************************************************************************)
\* flume::bounded::<MqttCommand>(400)
PublishCapacity == 400
\* flume::bounded(200)
InboundCapacity == 200
\* caps on the counters of the model
MaxSent == 2
MaxRecv == 2
MaxDropped == 2

\* flume::Sender::send: waits while a bounded channel is full, fails only when
\* every receiver is gone
Send(q, alive, cap, m) ==
    IF ~alive THEN [outcome |-> "err", queue |-> q]
    ELSE IF Len(q) < cap THEN [outcome |-> "sent", queue |-> Append(q, m)]
    ELSE [outcome |-> "blocked", queue |-> q]

\* a forwarder that waits for space as send does
TrySendWaiting(q, alive, cap, m) == Send(q, alive, cap, m)

\* flume::Sender::try_send: fails at once when the channel is full or closed
TrySend(q, alive, cap, m) ==
    IF alive /\ Len(q) < cap THEN [outcome |-> "sent", queue |-> Append(q, m)]
    ELSE [outcome |-> "err", queue |-> q]

MqttMessage(topic, payload) == [topic |-> topic, payload |-> payload]
MqttCommandPublish(m) == [cmd |-> "Publish", message |-> m]

\* heartbeat_task: {"ts": now} on public/heartbeat
HeartbeatMessage == MqttMessage(<<"public", "heartbeat">>, [ts |-> now])

\* the message a publisher is sending
PendingMessage(c) == IF c = "heartbeat" THEN HeartbeatMessage ELSE handlerRun.message

\* MqttSender::publish as called by publisher c: self.channel.send(..)?; Ok(())
MqttSenderPublish(c, m) ==
    LET r == Send(channel, receiverAlive, PublishCapacity, MqttCommandPublish(m))
    IN /\ channel' = r.queue
       /\ callers' = [callers EXCEPT ![c] = IF r.outcome = "sent" THEN "ok" ELSE r.outcome]

PublishInit ==
    /\ StoreIdle
    /\ shadow = NoRow
    /\ prevShadow = NoRow
    /\ lastUpdate = NoUpdate
    /\ lastResult = "none"
    /\ now = 1
    /\ BrokerIdle

\* heartbeat_task: publish, stop on an error
HeartbeatPublish ==
    /\ callers["heartbeat"] \in {"idle", "ok"}
    /\ MqttSenderPublish("heartbeat", HeartbeatMessage)
    /\ UNCHANGED <<engineVars, now, storeVars, authVars, receiverAlive, messages_sent,
                   handlerRun, inVars, sysVars>>

\* a publisher waiting in send is woken: there is space, or the receiver is gone
PublishUnblocked ==
    /\ \E c \in Publishers :
          /\ callers[c] = "blocked"
          /\ ~receiverAlive \/ Len(channel) < PublishCapacity
          /\ MqttSenderPublish(c, PendingMessage(c))
    /\ UNCHANGED <<engineVars, now, storeVars, authVars, receiverAlive, messages_sent,
                   handlerRun, inVars, sysVars>>

\* mqtt_send_handler: one turn of the recv_async loop; tx_link.publish may fail
SendHandlerRecv ==
    /\ receiverAlive
    /\ channel # <<>>
    /\ \E linkOk \in BOOLEAN :
          /\ linkOk => messages_sent < MaxSent
          /\ messages_sent' = IF linkOk THEN messages_sent + 1 ELSE messages_sent
    /\ channel' = Tail(channel)
    /\ UNCHANGED <<engineVars, now, storeVars, authVars, receiverAlive, callers,
                   handlerRun, inVars, sysVars>>

\* start_event_handlers returns (cancellation or a task exit): the JoinSet is
\* dropped, mqtt_send_handler is aborted and publish_receiver dropped
ReceiverDrop ==
    /\ receiverAlive
    /\ receiverAlive' = FALSE
    /\ UNCHANGED <<engineVars, now, storeVars, authVars, channel, callers, messages_sent,
                   handlerRun, inVars, sysVars>>

PublishNext == HeartbeatPublish \/ PublishUnblocked \/ SendHandlerRecv \/ ReceiverDrop

SpecPublish == PublishInit /\ [][PublishNext]_vars

(***************************************************************************)
(* C9: MqttSender.publish never blocks the caller: the command channel     *)
(* never holds more than 400 commands, and no publisher is ever waiting in *)
(* publish (on a full channel publish returns a send error).               *)
(***************************************************************************)
C9_PublishNeverBlocks ==
    /\ Len(channel) <= PublishCapacity
    /\ \A c \in Publishers : callers[c] # "blocked"

(***************************************************************************)
(* The inbound forwarder mqtt_message_handler: each Forward notification   *)
(* of the broker's rx link is offered to the inbound channel with          *)
(* try_send.  Notifications of another kind are skipped and change         *)
(* nothing.  The n-th forwarded message carries n as its payload.          *)
(***************************************************************************)
ForwardedMessage(n) == MqttMessage(<<"things", "dev1", "data">>, n)

InboundInit ==
    /\ StoreIdle
    /\ shadow = NoRow
    /\ prevShadow = NoRow
    /\ lastUpdate = NoUpdate
    /\ lastResult = "none"
    /\ now = 1
    /\ BrokerIdle

\* Notification::Forward(forward): try_send, then one of the two counters
MessageHandlerForward ==
    /\ forwarder = "ready"
    /\ messages_dropped < MaxDropped
    /\ LET r == TrySend(inbound, inboundAlive, InboundCapacity,
                        ForwardedMessage(notifications + 1))
       IN /\ inbound' = r.queue
          /\ notifications' = notifications + 1
          /\ forwarder' = IF r.outcome = "blocked" THEN "blocked" ELSE "ready"
          /\ messages_forwarded' =
                IF r.outcome = "sent" THEN messages_forwarded + 1 ELSE messages_forwarded
          /\ messages_dropped' =
                IF r.outcome = "err" THEN messages_dropped + 1 ELSE messages_dropped
    /\ UNCHANGED <<engineVars, now, storeVars, authVars, chanVars, handlerRun,
                   inboundAlive, received, sysVars>>

\* the consumer of MqttServer.receiver takes the oldest message
InboundRecv ==
    /\ inboundAlive
    /\ inbound # <<>>
    /\ received < MaxRecv
    /\ inbound' = Tail(inbound)
    /\ received' = received + 1
    /\ UNCHANGED <<engineVars, now, storeVars, authVars, chanVars, handlerRun,
                   inboundAlive, forwarder, notifications, messages_forwarded,
                   messages_dropped, sysVars>>

\* the consumer drops MqttServer.receiver
InboundReceiverDrop ==
    /\ inboundAlive
    /\ inboundAlive' = FALSE
    /\ UNCHANGED <<engineVars, now, storeVars, authVars, chanVars, handlerRun,
                   inbound, forwarder, notifications, messages_forwarded,
                   messages_dropped, received, sysVars>>

InboundNext == MessageHandlerForward \/ InboundRecv \/ InboundReceiverDrop

SpecInbound == InboundInit /\ [][InboundNext]_vars

(***************************************************************************)
(* C10: the inbound forwarder never blocks on the inbound channel of       *)
(* capacity 200.  It is never waiting in a send; the channel never holds   *)
(* more than 200 messages; every forwarded message is counted in exactly   *)
(* one of messages_forwarded and messages_dropped; a message offered while *)
(* the channel has room is queued and counted as forwarded, a message      *)
(* offered while the channel is full is dropped and counted as dropped.    *)
(***************************************************************************)
ForwardCounted ==
    /\ forwarder = "ready"
    /\ Len(inbound) <= InboundCapacity
    /\ messages_forwarded + messages_dropped = notifications
    /\ messages_forwarded = Len(inbound) + received
ForwardStep ==
    notifications' # notifications =>
        IF Len(inbound) < InboundCapacity /\ inboundAlive
        THEN /\ inbound' = Append(inbound, ForwardedMessage(notifications'))
             /\ messages_forwarded' = messages_forwarded + 1
             /\ messages_dropped' = messages_dropped
        ELSE /\ inbound' = inbound
             /\ messages_forwarded' = messages_forwarded
             /\ messages_dropped' = messages_dropped + 1
ShadowTopicPrefix == "things/"

\* get_delta_return_topic
GetDeltaReturnTopic(device_id, shadow_name, topic_prefix) ==
    IF shadow_name = "default"
    THEN <<topic_prefix, device_id, "shadow", "update", "delta">>
    ELSE <<topic_prefix, device_id, "shadow", shadow_name, "update", "delta">>

\* Shadow::get_delta_response_json: the envelope around the delta, or None
NoneJson == [t |-> "none"]
DeltaEnvelope(s, n) == [state |-> s.state.delta, version |-> s.version, timestamp |-> n]
GetDeltaResponseJson(s, n) ==
    IF s.state.delta # JNull /\ s.state.delta # EmptyObj THEN DeltaEnvelope(s, n)
    ELSE NoneJson

NoMessage == [topic |-> <<>>]

\* a handler that publishes the envelope whatever the delta is
SendDeltaToMqttAlways(s, topic_prefix, n) ==
    [publish |-> TRUE,
     message |-> MqttMessage(GetDeltaReturnTopic(s.device_id, s.shadow_name, topic_prefix),
                             DeltaEnvelope(s, n))]

\* send_delta_to_mqtt: whether it calls mqtt_sender.publish, and with what
SendDeltaToMqtt(s, topic_prefix, n) ==
    LET return_topic == GetDeltaReturnTopic(s.device_id, s.shadow_name, topic_prefix)
        delta_json == GetDeltaResponseJson(s, n)
    IN IF delta_json # NoneJson
       THEN [publish |-> TRUE, message |-> MqttMessage(return_topic, delta_json)]
       ELSE [publish |-> FALSE, message |-> NoMessage]

\* the bodies published on <prefix><dev>/shadow/update
HandlerPayloads ==
    {[kind |-> "not_utf8"], [kind |-> "not_json"]} \cup
    {[kind |-> "json", reported |-> pp[1], desired |-> pp[2]] :
        pp \in {<<JNull, JObj([k \in {"a"} |-> JNum(2)])>>,
                <<JObj([k \in {"a"} |-> JNum(2)]), JNull>>,
                <<JObj([k \in {"a"} |-> JNum(1)]), JNull>>,
                <<JNull, JObj([k \in {"a"} |-> JNull])>>}}

HandlerInit ==
    /\ StoreIdle
    /\ shadow = NoRow
    /\ prevShadow = NoRow
    /\ lastUpdate = NoUpdate
    /\ lastResult = "none"
    /\ now = 1
    /\ BrokerIdle

\* handle_shadow_update for one message; _upsert_shadow runs alone here
HandleShadowUpdate ==
    /\ callers["handler"] # "blocked"
    /\ \E k \in StoreKeys, p \in HandlerPayloads, storeOk \in BOOLEAN :
          IF p.kind # "json"
          THEN /\ handlerRun' = [upsert |-> "invalid", publishCalls |-> 0,
                                 message |-> NoMessage]
               /\ UNCHANGED <<shadows, returns, channel, callers, sysVars>>
          ELSE LET u == StateUpdateDocument(k[2], k[3], k[1], p.reported, p.desired)
                   row == IF shadows[k] = NoRow THEN NewShadow(k[2], k[3], k[1])
                          ELSE shadows[k]
                   updated == Update(row, u, now)
                   d == SendDeltaToMqtt(updated, ShadowTopicPrefix, now)
               IN IF ~storeOk \/ UpdateError(row, u) # "ok"
                  THEN /\ handlerRun' = [upsert |-> "err", publishCalls |-> 0,
                                         message |-> NoMessage]
                       /\ UNCHANGED <<shadows, returns, channel, callers, sysVars>>
                  ELSE /\ row.version < MaxUpdates
                       /\ shadows' = [shadows EXCEPT ![k] = updated]
                       /\ returns' = [returns EXCEPT ![k] = Append(@, updated.version)]
                       /\ handlerRun' = [upsert |-> "ok", update |-> u, shadow |-> updated,
                                         publishCalls |-> IF d.publish THEN 1 ELSE 0,
                                         message |-> d.message]
                       /\ IF d.publish THEN MqttSenderPublish("handler", d.message)
                          ELSE UNCHANGED <<channel, callers, sysVars>>
    /\ UNCHANGED <<engineVars, now, backend, tx, authVars, receiverAlive, messages_sent,
                   inVars, sysVars>>

HandlerNext == HandleShadowUpdate \/ SendHandlerRecv \/ ReceiverDrop

SpecHandler == HandlerInit /\ [][HandlerNext]_vars

(***************************************************************************)
(* C8: after the shadow-update handler's upsert succeeds, the handler      *)
(* publishes exactly one delta message, on the delta topic of the shadow   *)
(* and carrying its delta, if the returned shadow's delta is non-null and  *)
(* non-empty, and publishes nothing if the delta is null or empty.         *)
(***************************************************************************)
DeltaPublishedOnce ==
    shadows' # shadows =>
        LET k == CHOOSE key \in StoreKeys : shadows'[key] # shadows[key]
            s == shadows'[k]
            topic == IF k[3] = "default"
                     THEN <<"things/", k[2], "shadow", "update", "delta">>
                     ELSE <<"things/", k[2], "shadow", k[3], "update", "delta">>
        IN /\ handlerRun'.upsert = "ok"
           /\ IF s.state.delta # JNull /\ s.state.delta # EmptyObj
              THEN /\ handlerRun'.publishCalls = 1
                   /\ handlerRun'.message.topic = topic
                   /\ handlerRun'.message.payload.state = s.state.delta
                   /\ receiverAlive /\ Len(channel) < PublishCapacity =>
                         channel' = Append(channel,
                                           [cmd |-> "Publish", message |-> handlerRun'.message])
                   /\ ~receiverAlive => channel' = channel
              ELSE /\ handlerRun'.publishCalls = 0
                   /\ channel' = channel
C8_DeltaPublishedOnce == [][DeltaPublishedOnce]_vars

\* a reported-only update has made reported match desired: the delta published
\* for the first update is cleared and the second run publishes nothing
C8_Witness ==
    /\ handlerRun.upsert = "ok"
    /\ handlerRun.publishCalls = 0
    /\ handlerRun.update.state.reported # JNull
    /\ handlerRun.update.state.desired = JNull
    /\ handlerRun.shadow.state.desired # JNull
    /\ handlerRun.shadow.state.delta = JNull
    /\ handlerRun.shadow.version = 2
    /\ \E i \in DOMAIN channel : channel[i].message.topic[2] = handlerRun.shadow.device_id

(***************************************************************************)
(* Topic classification: processor::topics.  A topic, a prefix or a        *)
(* pattern is the sequence of its pieces; "/" , "." and "+" are pieces of  *)
(* their own, every other piece is a run of characters without them.       *)
(***************************************************************************)
Slash == "/"
Dot == "."
Plus == "+"

\* str::split(sep): the parts between the separators, at least one part
RECURSIVE Split(_, _)
Split(s, sep) ==
    IF s = <<>> THEN << <<>> >>
    ELSE LET rest == Split(Tail(s), sep)
         IN IF Head(s) = sep THEN << <<>> >> \o rest
            ELSE << <<Head(s)>> \o Head(rest) >> \o Tail(rest)

\* str::strip_prefix(prefix): Some(rest) or None
StripPrefix(s, prefix) ==
    IF Len(prefix) <= Len(s) /\ SubSeq(s, 1, Len(prefix)) = prefix
    THEN [some |-> TRUE, rest |-> SubSeq(s, Len(prefix) + 1, Len(s))]
    ELSE [some |-> FALSE]

\* str::split_once(sep): the parts before and after the first separator
SplitOnce(s, sep) ==
    IF \E i \in DOMAIN s : s[i] = sep
    THEN LET i == CHOOSE j \in DOMAIN s : s[j] = sep /\ \A h \in 1..(j - 1) : s[h] # sep
         IN [some |-> TRUE, before |-> SubSeq(s, 1, i - 1), after |-> SubSeq(s, i + 1, Len(s))]
    ELSE [some |-> FALSE]

\* DefaultString::new on a name given by its pieces; the value is its as_str()
DefaultStringNew(name) ==
    IF [i \in DOMAIN name |-> ToLower(name[i])] = <<"default">> THEN <<"default">> ELSE name

\* a parser that keeps the whole segment as the device id
SplitDeviceIdWhole(device_id) ==
    LET r == SplitOnce(device_id, Dot)
    IN IF r.some THEN [tenant |-> DefaultStringNew(r.before), device |-> device_id]
       ELSE [tenant |-> <<"default">>, device |-> device_id]

\* split_device_id
SplitDeviceId(device_id) ==
    LET r == SplitOnce(device_id, Dot)
    IN IF r.some THEN [tenant |-> DefaultStringNew(r.before), device |-> r.after]
       ELSE [tenant |-> <<"default">>, device |-> device_id]

\* enum TopicType
ShadowUpdate(td, sn) ==
    [type |-> "ShadowUpdate", tenant |-> td.tenant, device |-> td.device, shadow_name |-> sn]
DataUpdate(td) == [type |-> "DataUpdate", tenant |-> td.tenant, device |-> td.device]
ShadowDelta(td, sn) ==
    [type |-> "ShadowDelta", tenant |-> td.tenant, device |-> td.device, shadow_name |-> sn]
Other == [type |-> "Other"]

\* the level a pattern takes the device from: here the last "+"
DeviceLevelLast(pattern_parts) ==
    CHOOSE i \in DOMAIN pattern_parts :
        pattern_parts[i] = <<Plus>> /\ \A j \in (i + 1)..Len(pattern_parts) : pattern_parts[j] # <<Plus>>

\* the level a pattern takes the device from: the first "+" (extracted_device_id
\* is set once)
DeviceLevel(pattern_parts) ==
    CHOOSE i \in DOMAIN pattern_parts :
        pattern_parts[i] = <<Plus>> /\ \A j \in 1..(i - 1) : pattern_parts[j] # <<Plus>>

\* the body of the loop over telemetry_topics for one pattern: Some(DataUpdate)
\* when the pattern matches and has a "+"
MatchTelemetry(pattern, topic) ==
    LET pattern_parts == Split(pattern, Slash)
        topic_parts == Split(topic, Slash)
        matches == \A i \in DOMAIN pattern_parts :
                       pattern_parts[i] = <<Plus>> \/ pattern_parts[i] = topic_parts[i]
    IN IF /\ Len(pattern_parts) = Len(topic_parts)
          /\ matches
          /\ \E i \in DOMAIN pattern_parts : pattern_parts[i] = <<Plus>>
       THEN [some |-> TRUE,
             type |-> DataUpdate(SplitDeviceId(topic_parts[DeviceLevel(pattern_parts)]))]
       ELSE [some |-> FALSE]

\* the loop over telemetry_topics: the first pattern that returns
RECURSIVE FirstTelemetry(_, _)
FirstTelemetry(patterns, topic) ==
    IF patterns = <<>> THEN [some |-> FALSE]
    ELSE IF MatchTelemetry(Head(patterns), topic).some THEN MatchTelemetry(Head(patterns), topic)
    ELSE FirstTelemetry(Tail(patterns), topic)

\* a match that reads a named shadow as the default shadow
ClassifyPartsUnnamed(parts) ==
    IF Len(parts) \in {3, 4} /\ parts[2] = <<"shadow">> /\ parts[Len(parts)] = <<"update">>
    THEN ShadowUpdate(SplitDeviceId(parts[1]), <<"default">>)
    ELSE Other

\* a match that looks at the levels up to "update" and not at what follows
ClassifyPartsByPrefix(parts) ==
    IF Len(parts) >= 3 /\ parts[2] = <<"shadow">> /\ parts[3] = <<"update">>
    THEN ShadowUpdate(SplitDeviceId(parts[1]), <<"default">>)
    ELSE IF Len(parts) >= 4 /\ parts[2] = <<"shadow">> /\ parts[4] = <<"update">>
    THEN ShadowUpdate(SplitDeviceId(parts[1]), DefaultStringNew(parts[3]))
    ELSE IF Len(parts) = 2 /\ parts[2] = <<"data">>
    THEN DataUpdate(SplitDeviceId(parts[1]))
    ELSE Other

\* match &parts[..] of get_topic_type
ClassifyParts(parts) ==
    IF Len(parts) = 3 /\ parts[2] = <<"shadow">> /\ parts[3] = <<"update">>
    THEN ShadowUpdate(SplitDeviceId(parts[1]), <<"default">>)
    ELSE IF Len(parts) = 4 /\ parts[2] = <<"shadow">> /\ parts[4] = <<"update">>
    THEN ShadowUpdate(SplitDeviceId(parts[1]), DefaultStringNew(parts[3]))
    ELSE IF Len(parts) = 2 /\ parts[2] = <<"data">>
    THEN DataUpdate(SplitDeviceId(parts[1]))
    ELSE IF Len(parts) = 4 /\ parts[2] = <<"shadow">> /\ parts[3] = <<"update">>
            /\ parts[4] = <<"delta">>
    THEN ShadowDelta(SplitDeviceId(parts[1]), <<"default">>)
    ELSE IF Len(parts) = 5 /\ parts[2] = <<"shadow">> /\ parts[4] = <<"update">>
            /\ parts[5] = <<"delta">>
    THEN ShadowDelta(SplitDeviceId(parts[1]), DefaultStringNew(parts[3]))
    ELSE Other

\* get_topic_type(msg, processor_state)
GetTopicType(topic, cfg) ==
    LET tel == FirstTelemetry(cfg.telemetry_topics, topic)
        stripped == StripPrefix(topic, cfg.shadow_topic_prefix)
    IN IF tel.some THEN tel.type
       ELSE IF ~stripped.some THEN Other
       ELSE ClassifyParts(Split(stripped.rest, Slash))

(***************************************************************************)
(* Specification SpecTopics: get_topic_type and split_device_id applied to *)
(* topics, of up to MaxSuffix levels after the device level, under every   *)
(* configuration below.                                                    *)
(***************************************************************************)
MaxSuffix == 4

EngineIdle ==
    /\ shadow = NoRow
    /\ prevShadow = NoRow
    /\ lastUpdate = NoUpdate
    /\ lastResult = "none"
    /\ now = 1

\* the levels of a topic joined by "/"
RECURSIVE Join(_)
Join(levels) ==
    IF levels = <<>> THEN <<>>
    ELSE IF Len(levels) = 1 THEN Head(levels)
    ELSE Head(levels) \o <<Slash>> \o Join(Tail(levels))

DevSegments ==
    {<<"dev1">>, <<"acme", Dot, "dev1">>, <<"Default", Dot, "dev1">>,
     <<"acme", Dot, "dev1", Dot, "a">>}
SuffixWords == {<<"shadow">>, <<"update">>, <<"delta">>, <<"data">>, <<"main">>}
Suffixes ==
    UNION {[1..n -> SuffixWords] : n \in 0..MaxSuffix} \cup {<< <<"time">>, <<"request">> >>}
TopicHeads == {<<"things", Slash>>, <<"other", Slash>>}
Topics == {h \o Join(<<d>> \o s) : h \in TopicHeads, d \in DevSegments, s \in Suffixes}

TelemetryConfigs ==
    {<<>>,
     << <<"things", Slash, Plus, Slash, "data">> >>,
     << <<"things", Slash, Plus, Slash, "shadow", Slash, "update">> >>,
     << <<"other", Slash, "dev1", Slash, "data">> >>,
     << <<Plus, Slash, "dev1", Slash, "data">>, <<"things", Slash, Plus, Slash, Plus>> >>}
TopicConfigs ==
    [shadow_topic_prefix : {<<"things", Slash>>, <<"things">>},
     telemetry_topics : TelemetryConfigs]

TopicsInit ==
    /\ StoreIdle
    /\ ExtraIdle
    /\ EngineIdle
    /\ AdapterIdle
    /\ CancelIdle
    /\ NothingDispatched
    /\ NothingClassified
    /\ config \in TopicConfigs

\* get_topic_type on one topic
Classify ==
    /\ topicIn = NoTopic
    /\ \E topic \in Topics :
          /\ topicIn' = topic
          /\ topicOut' = GetTopicType(topic, config)
    /\ UNCHANGED <<engineVars, now, storeVars, authVars, chanVars, handlerRun, inVars,
                   cancelVars, dispatchVars, extraVars>>

\* split_device_id on one <dev> segment
ParseDeviceId ==
    /\ topicIn = NoTopic
    /\ \E seg \in DevSegments \cup {<<"dev1", Dot>>, <<Dot, "dev1">>} :
          /\ topicIn' = seg
          /\ topicOut' = [type |-> "Split", parsed |-> SplitDeviceId(seg)]
    /\ UNCHANGED <<engineVars, now, storeVars, authVars, chanVars, handlerRun, inVars,
                   cancelVars, dispatchVars, extraVars>>

TopicsNext == Classify \/ ParseDeviceId

SpecTopics == TopicsInit /\ [][TopicsNext]_vars

\* a topic has been classified by get_topic_type
Classified == topicOut.type \notin {"none", "Split"}

\* C20: a <dev> segment with a '.' parses to the tenant named before its first
\* '.' and the device id after it; a segment without a '.' parses to tenant
\* Default and the whole segment as device id.
C20_SplitDeviceId ==
    topicOut.type = "Split" =>
        IF \E i \in DOMAIN topicIn : topicIn[i] = Dot
        THEN \E i \in DOMAIN topicIn :
                /\ topicIn[i] = Dot
                /\ \A j \in 1..(i - 1) : topicIn[j] # Dot
                /\ topicOut.parsed.tenant = DefaultStringNew(SubSeq(topicIn, 1, i - 1))
                /\ topicOut.parsed.device = SubSeq(topicIn, i + 1, Len(topicIn))
        ELSE /\ topicOut.parsed.tenant = <<"default">>
             /\ topicOut.parsed.device = topicIn

C20_Witness ==
    /\ topicIn = <<"acme", Dot, "dev1">>
    /\ topicOut.type = "Split"
    /\ topicOut.parsed = [tenant |-> <<"acme">>, device |-> <<"dev1">>]

\* the rows of the topic grammar, by level; <dev> and <name> stand for one level
GrammarTable ==
    {[row |-> <<"<dev>", "shadow", "update">>, type |-> "ShadowUpdate"],
     [row |-> <<"<dev>", "shadow", "<name>", "update">>, type |-> "ShadowUpdate"],
     [row |-> <<"<dev>", "shadow", "update", "delta">>, type |-> "ShadowDelta"],
     [row |-> <<"<dev>", "shadow", "<name>", "update", "delta">>, type |-> "ShadowDelta"],
     [row |-> <<"<dev>", "data">>, type |-> "DataUpdate"]}
TimeRequestRow == <<"<dev>", "time", "request">>

FitsRow(levels, row) ==
    /\ Len(levels) = Len(row)
    /\ \A i \in DOMAIN row : row[i] \in {"<dev>", "<name>"} \/ levels[i] = <<row[i]>>

\* the shadow name a row gives: the <name> level, the default name without one
RowShadowName(levels, row) ==
    IF \E i \in DOMAIN row : row[i] = "<name>"
    THEN DefaultStringNew(levels[CHOOSE i \in DOMAIN row : row[i] = "<name>"])
    ELSE <<"default">>

\* the claim's reading of a telemetry pattern matching a topic
PatternMatches(pattern, topic) ==
    LET pp == Split(pattern, Slash)
        tp == Split(topic, Slash)
    IN /\ Len(pp) = Len(tp)
       /\ \A i \in DOMAIN pp : pp[i] = <<Plus>> \/ pp[i] = tp[i]
HasPlus(pattern) == \E i \in DOMAIN pattern : pattern[i] = Plus
FirstPlusLevel(pattern) ==
    LET pp == Split(pattern, Slash)
    IN CHOOSE i \in DOMAIN pp : pp[i] = <<Plus>> /\ \A j \in 1..(i - 1) : pp[j] # <<Plus>>

\* what the grammar table says of the classified topic
FollowsGrammarTable ==
    LET stripped == StripPrefix(topicIn, config.shadow_topic_prefix)
        levels == IF stripped.some THEN Split(stripped.rest, Slash) ELSE <<>>
        fitsTelemetry == \E k \in DOMAIN config.telemetry_topics :
                             PatternMatches(config.telemetry_topics[k], topicIn)
    IN /\ \A r \in GrammarTable :
            (stripped.some /\ FitsRow(levels, r.row)) =>
                /\ topicOut.type = r.type
                /\ topicOut.tenant = SplitDeviceId(levels[1]).tenant
                /\ topicOut.device = SplitDeviceId(levels[1]).device
                /\ r.type = "ShadowUpdate" => topicOut.shadow_name = RowShadowName(levels, r.row)
       /\ (/\ ~fitsTelemetry
           /\ ~(stripped.some /\ FitsRow(levels, TimeRequestRow))
           /\ \A r \in GrammarTable : ~(stripped.some /\ FitsRow(levels, r.row)))
          => topicOut = Other

\* the topic matches a telemetry pattern that has a '+': those are tried first
TelemetryTaken ==
    \E k \in DOMAIN config.telemetry_topics :
        /\ HasPlus(config.telemetry_topics[k])
        /\ PatternMatches(config.telemetry_topics[k], topicIn)

\* C18 as stated: classification follows the grammar table for every
\* configuration of telemetry_topics.
C18_GrammarEveryConfig == Classified => FollowsGrammarTable

\* C18, amended: a topic that matches no telemetry pattern with a '+' is
\* classified by the grammar table: <dev>/shadow/update and
\* <dev>/shadow/<name>/update are ShadowUpdate with the default and the given
\* name, the two delta rows are ShadowDelta, <dev>/data is DataUpdate, and a
\* topic that fits no row and no telemetry pattern is Other.
C18_GrammarAfterTelemetry == (Classified /\ ~TelemetryTaken) => FollowsGrammarTable

C18_Witness ==
    /\ config.telemetry_topics = << <<"things", Slash, Plus, Slash, "shadow", Slash, "update">> >>
    /\ config.shadow_topic_prefix = <<"things", Slash>>
    /\ topicIn = <<"things", Slash, "acme", Dot, "dev1", Slash, "shadow", Slash, "main", Slash, "update">>
    /\ topicOut = ShadowUpdate([tenant |-> <<"acme">>, device |-> <<"dev1">>], <<"main">>)

\* C19 as stated: every topic matching a configured pattern is DataUpdate with
\* the device of the level matched by the pattern's first '+'.
C19_EveryMatchingPattern ==
    Classified =>
        \A k \in DOMAIN config.telemetry_topics :
            LET pattern == config.telemetry_topics[k]
                tp == Split(topicIn, Slash)
            IN PatternMatches(pattern, topicIn) =>
                  /\ topicOut.type = "DataUpdate"
                  /\ HasPlus(pattern) =>
                        topicOut = DataUpdate(SplitDeviceId(tp[FirstPlusLevel(pattern)]))

\* C19, amended: a topic matching a configured pattern that has a '+' is
\* DataUpdate, with the device of the level matched by the first '+' of the
\* first such pattern in configuration order.
C19_FirstPatternWithPlus ==
    (Classified /\ TelemetryTaken) =>
        LET k == CHOOSE i \in DOMAIN config.telemetry_topics :
                     /\ HasPlus(config.telemetry_topics[i])
                     /\ PatternMatches(config.telemetry_topics[i], topicIn)
                     /\ \A j \in 1..(i - 1) :
                            ~(/\ HasPlus(config.telemetry_topics[j])
                              /\ PatternMatches(config.telemetry_topics[j], topicIn))
            tp == Split(topicIn, Slash)
        IN topicOut = DataUpdate(SplitDeviceId(tp[FirstPlusLevel(config.telemetry_topics[k])]))

C19_Witness ==
    /\ Len(config.telemetry_topics) = 2
    /\ topicIn = <<"things", Slash, "acme", Dot, "dev1", Slash, "data">>
    /\ topicOut = DataUpdate([tenant |-> <<"acme">>, device |-> <<"dev1">>])

(***************************************************************************)
(* Specification SpecDispatch: run_stream_worker takes publishes from the  *)
(* admin stream, handle_message classifies each and spawns its handlers,   *)
(* and the handlers run concurrently with the loop.                        *)
(***************************************************************************)
MaxMessages == 2

\* the publishes the admin stream delivers: a topic that is not UTF-8, or a
\* topic and a payload
DispatchTopics ==
    {Join(<< <<"things">>, <<"dev1">>, <<"shadow">>, <<"update">> >>),
     Join(<< <<"things">>, <<"acme", Dot, "dev1">>, <<"shadow">>, <<"main">>, <<"update">> >>),
     Join(<< <<"things">>, <<"dev1">>, <<"data">> >>),
     Join(<< <<"things">>, <<"dev1">>, <<"shadow">>, <<"update">>, <<"delta">> >>),
     Join(<< <<"things">>, <<"dev1">>, <<"time">>, <<"request">> >>),
     Join(<< <<"other">>, <<"dev1">>, <<"data">> >>)}
DispatchPayloads ==
    {[kind |-> "not_json"],
     [kind |-> "json", reported |-> JNull, desired |-> JObj([k \in {"a"} |-> JNum(2)])],
     [kind |-> "json", reported |-> JObj([k \in {"a"} |-> JNum(2)]), desired |-> JNull]}
AdminMessages ==
    {[topic_utf8 |-> FALSE, topic |-> NoTopic, payload |-> [kind |-> "not_json"]]} \cup
    [topic_utf8 : {TRUE}, topic : DispatchTopics, payload : DispatchPayloads]

\* what run_stream_worker does with the result of admin_link.recv(): a loop
\* that also ends on a topic it cannot decode
StreamWorkerStrict(rs) ==
    IF rs = "publish" THEN "continue" ELSE "break"

\* what run_stream_worker does with the result of admin_link.recv()
StreamWorker(rs) ==
    IF rs \in {"publish", "undecodable"} THEN "continue" ELSE "break"

\* the handlers handle_message spawns for a topic type
Handlers(topic_type) ==
    IF topic_type.type = "Other" THEN {}
    ELSE IF topic_type.type = "ShadowUpdate" THEN {"shadow_update", "metric_extraction"}
    ELSE IF topic_type.type = "DataUpdate" THEN {"metric_extraction"}
    ELSE IF topic_type.type = "TimeRequest" THEN {"time_request"}
    ELSE {}

\* the key of the shadows table a ShadowUpdate names
ShadowKey(topic_type) ==
    <<topic_type.tenant[1], topic_type.device[1], topic_type.shadow_name[1]>>

DispatchInit ==
    /\ StoreIdle
    /\ ExtraIdle
    /\ EngineIdle
    /\ AdapterIdle
    /\ CancelIdle
    /\ NothingDispatched
    /\ NothingClassified
    /\ config = DefaultProcessorConfig

\* one turn of the loop of run_stream_worker on a publish, with the start of
\* the handle_message task it spawns: classification and the JoinSet spawns
StreamWorkerStep(messages, maxMessages) ==
    /\ procTasks["stream_worker"] = "running"
    /\ adminLink = "open"
    /\ Len(dispatched) < maxMessages
    /\ \E m \in messages :
          LET rs == IF m.topic_utf8 THEN "publish" ELSE "undecodable"
              topic_type == IF m.topic_utf8 THEN GetTopicType(m.topic, config) ELSE NoType
              hs == IF m.topic_utf8 THEN Handlers(topic_type) ELSE {}
              id == Len(dispatched) + 1
          IN /\ dispatched' = Append(dispatched,
                                     [topic_utf8 |-> m.topic_utf8, topic |-> m.topic,
                                      payload |-> m.payload, type |-> topic_type,
                                      handlers |-> hs, errors_before |-> handlerErrors])
             /\ pending' = pending \cup {[id |-> id, handler |-> h, payload |-> m.payload] : h \in hs}
             /\ procTasks' = [procTasks EXCEPT !["stream_worker"] =
                                 IF StreamWorker(rs) = "continue" THEN "running" ELSE "returned"]
    /\ UNCHANGED <<engineVars, now, storeVars, authVars, chanVars, handlerRun, inVars,
                   brokerToken, apiToken, brokerThread, tasks, supervisor, exitedEarly,
                   linker, apiServer, adminLink, config, handlerErrors, topicVars, extraVars>>

\* the broker closes the admin link
AdminLinkClose ==
    /\ adminLink = "open"
    /\ adminLink' = "closed"
    /\ UNCHANGED <<engineVars, now, storeVars, authVars, chanVars, handlerRun, inVars,
                   brokerToken, apiToken, brokerThread, tasks, supervisor, exitedEarly,
                   linker, apiServer, procTasks, dispatchVars, topicVars, extraVars>>

\* admin_link.recv() returns Ok(None) or Err on the closed link: the loop breaks
StreamWorkerClosed ==
    /\ procTasks["stream_worker"] = "running"
    /\ adminLink = "closed"
    /\ \E rs \in {"none", "err"} :
          procTasks' = [procTasks EXCEPT !["stream_worker"] =
                           IF StreamWorker(rs) = "continue" THEN "running" ELSE "returned"]
    /\ UNCHANGED <<engineVars, now, storeVars, authVars, chanVars, handlerRun, inVars,
                   brokerToken, apiToken, brokerThread, tasks, supervisor, exitedEarly,
                   linker, apiServer, adminLink, dispatchVars, topicVars, extraVars>>

\* one handler task runs to its end and handle_message joins it: an error is
\* logged and nothing else.  handle_shadow_update upserts and publishes the
\* delta; handle_metric_extraction parses the payload and writes metrics;
\* handle_time_request publishes the time response.
HandlerRun ==
    \E t \in pending, storeOk \in BOOLEAN :
        LET d == dispatched[t.id]
            failed == /\ handlerErrors' = handlerErrors + 1
                      /\ UNCHANGED <<shadows, returns, channel, callers>>
        IN /\ pending' = pending \ {t}
           /\ IF t.handler = "shadow_update"
              THEN IF t.payload.kind # "json"
                   THEN failed
                   ELSE LET k == ShadowKey(d.type)
                            u == StateUpdateDocument(k[2], k[3], k[1], t.payload.reported,
                                                     t.payload.desired)
                            row == IF shadows[k] = NoRow THEN NewShadow(k[2], k[3], k[1])
                                   ELSE shadows[k]
                            updated == Update(row, u, now)
                            sent == SendDeltaToMqtt(updated, ShadowTopicPrefix, now)
                        IN IF ~storeOk \/ UpdateError(row, u) # "ok"
                           THEN failed
                           ELSE /\ shadows' = [shadows EXCEPT ![k] = updated]
                                /\ returns' = [returns EXCEPT ![k] = Append(@, updated.version)]
                                /\ IF sent.publish
                                   THEN /\ MqttSenderPublish("handler", sent.message)
                                        /\ handlerErrors' =
                                              IF callers'["handler"] = "err"
                                              THEN handlerErrors + 1 ELSE handlerErrors
                                   ELSE UNCHANGED <<channel, callers, handlerErrors>>
              ELSE IF t.handler = "metric_extraction"
              THEN IF t.payload.kind # "json" \/ ~storeOk
                   THEN failed
                   ELSE UNCHANGED <<shadows, returns, channel, callers, handlerErrors>>
              ELSE /\ MqttSenderPublish("handler",
                                        MqttMessage(<<ShadowTopicPrefix, d.type.device[1],
                                                      "time", "response">>,
                                                    [server_time |-> now]))
                   /\ handlerErrors' = IF callers'["handler"] = "err"
                                       THEN handlerErrors + 1 ELSE handlerErrors
                   /\ UNCHANGED <<shadows, returns>>
    /\ UNCHANGED <<engineVars, now, backend, tx, authVars, receiverAlive, messages_sent,
                   handlerRun, inVars, cancelVars, config, dispatched, topicVars, extraVars>>

DispatchNext ==
    \/ StreamWorkerStep(AdminMessages, MaxMessages)
    \/ AdminLinkClose
    \/ StreamWorkerClosed
    \/ HandlerRun

SpecDispatch == DispatchInit /\ [][DispatchNext]_vars

\* the topic type the grammar table and the telemetry patterns give a topic
TableTopicType(topic) ==
    LET stripped == StripPrefix(topic, config.shadow_topic_prefix)
        levels == IF stripped.some THEN Split(stripped.rest, Slash) ELSE <<>>
    IN IF \E k \in DOMAIN config.telemetry_topics :
              /\ HasPlus(config.telemetry_topics[k])
              /\ PatternMatches(config.telemetry_topics[k], topic)
       THEN "DataUpdate"
       ELSE IF \E r \in GrammarTable : stripped.some /\ FitsRow(levels, r.row)
       THEN (CHOOSE r \in GrammarTable : FitsRow(levels, r.row)).type
       ELSE IF stripped.some /\ FitsRow(levels, TimeRequestRow) THEN "TimeRequest"
       ELSE "Other"

\* the handlers the dispatch rules call for
HandlersCalledFor(type) ==
    CASE type = "ShadowUpdate" -> {"shadow_update", "metric_extraction"}
      [] type = "DataUpdate" -> {"metric_extraction"}
      [] type = "TimeRequest" -> {"time_request"}
      [] OTHER -> {}

\* C16: for every admin-stream message the processor starts exactly the
\* handlers its topic type calls for, each on the message's payload:
\* ShadowUpdate the shadow-update and the telemetry handler, DataUpdate the
\* telemetry handler, TimeRequest the time-request handler, ShadowDelta and
\* unknown topics none.
C16_HandlersPerTopicType ==
    /\ \A i \in DOMAIN dispatched :
          dispatched[i].topic_utf8 =>
              dispatched[i].handlers = HandlersCalledFor(TableTopicType(dispatched[i].topic))
    /\ \A t \in pending : t.payload = dispatched[t.id].payload

\* C17: the dispatch loop ends only when the admin link is closed, whatever
\* failed before: a topic that is not UTF-8, a payload that is not JSON, a
\* rejected update or a store error is logged and the loop takes the next
\* message.
C17_LoopSurvivesFailures ==
    /\ procTasks["stream_worker"] = "returned" => adminLink = "closed"
    /\ \A t \in pending : t.id \in DOMAIN dispatched /\ t.handler \in dispatched[t.id].handlers

\* both handlers of a malformed shadow update have failed, and the update taken
\* after that has been applied
C17_Witness ==
    /\ procTasks["stream_worker"] = "running"
    /\ Len(dispatched) = 2
    /\ dispatched[1].type.type = "ShadowUpdate"
    /\ dispatched[1].payload.kind = "not_json"
    /\ dispatched[2].errors_before = 2
    /\ dispatched[2].type.type = "ShadowUpdate"
    /\ shadows[ShadowKey(dispatched[2].type)] # NoRow
    /\ pending = {}

(***************************************************************************)
(* Specification SpecCancel: the broker thread, start_event_handlers and   *)
(* its adapter tasks, the task of start_server that links the broker token *)
(* and the API token, the HTTP server and the processor tasks.             *)
(* SpecCancelFair adds the scheduling of the runtime: a task that is ready *)
(* is polled, and an aborted task is dropped at its next await.            *)
(* SpecShutdownFair adds the processor tasks on the admin stream.          *)
(***************************************************************************)
\* the JoinSet of start_event_handlers after its spawns
SpawnedTasks(enable_heartbeat) ==
    [t \in AdapterTasks |->
        IF t = "heartbeat" /\ ~enable_heartbeat THEN "absent" ELSE "running"]

\* the body of the broker thread: broker.start().unwrap(); cancel()
BrokerThread(start_result) ==
    IF start_result = "ok" THEN [thread |-> "returned", cancel |-> TRUE]
    ELSE [thread |-> "panicked", cancel |-> FALSE]

\* a supervisor that reports the exit and leaves the token alone
SupervisorOnJoinReportOnly(is_cancelled) ==
    IF is_cancelled THEN [result |-> "ok", cancel |-> FALSE]
    ELSE [result |-> "err", cancel |-> FALSE]

\* the join_next branch of the select! of start_event_handlers
SupervisorOnJoin(is_cancelled) ==
    IF is_cancelled THEN [result |-> "ok", cancel |-> FALSE]
    ELSE [result |-> "err", cancel |-> TRUE]

\* a set whose tasks are left running when it is dropped
JoinSetDropDetached(state) == state

\* a task of the JoinSet once the set has been dropped: it is aborted
JoinSetDrop(state) == IF state = "running" THEN "aborted" ELSE state

\* a linking task that does not pass an API cancellation on to the broker
LinkerBranchOneWay(branch) ==
    IF branch = "broker_cancelled" THEN [api |-> TRUE, broker |-> FALSE]
    ELSE [api |-> FALSE, broker |-> FALSE]

\* the token each branch of the select! of start_server cancels
LinkerBranch(branch) ==
    IF branch = "broker_cancelled" THEN [api |-> TRUE, broker |-> FALSE]
    ELSE [api |-> FALSE, broker |-> TRUE]

\* the publishes the admin stream delivers while the server shuts down: at most
\* MaxCancelMessages, on a topic that calls for no handler
MaxCancelMessages == 1
CancelMessages ==
    {[topic_utf8 |-> TRUE,
      topic |-> Join(<< <<"other">>, <<"dev1">>, <<"data">> >>),
      payload |-> [kind |-> "not_json"]]}

CancelInit ==
    /\ StoreIdle
    /\ ExtraIdle
    /\ EngineIdle
    /\ AdapterIdle
    /\ NothingDispatched
    /\ NothingClassified
    /\ config = DefaultProcessorConfig
    /\ brokerToken = FALSE
    /\ apiToken = FALSE
    /\ brokerThread = "running"
    /\ \E enable_heartbeat \in BOOLEAN : tasks = SpawnedTasks(enable_heartbeat)
    /\ supervisor = "running"
    /\ exitedEarly = FALSE
    /\ linker = "waiting"
    /\ apiServer = "serving"
    /\ procTasks = [t \in ProcessorTasks |-> "running"]
    /\ adminLink = "open"

\* broker.start() returns in the broker thread
BrokerThreadExit ==
    /\ brokerThread = "running"
    /\ \E start_result \in {"ok", "err"} :
          /\ brokerThread' = BrokerThread(start_result).thread
          /\ brokerToken' = (brokerToken \/ BrokerThread(start_result).cancel)
    /\ UNCHANGED <<engineVars, now, storeVars, authVars, chanVars, handlerRun, inVars,
                   apiToken, tasks, supervisor, exitedEarly, linker, apiServer, procTasks,
                   adminLink, dispatchVars, topicVars, extraVars>>

\* an adapter task runs to its end: its link or its channel has failed
TaskExit(t) ==
    /\ tasks[t] = "running"
    /\ tasks' = [tasks EXCEPT ![t] = "returned"]
    /\ exitedEarly' = (exitedEarly \/ ~brokerToken)
    /\ receiverAlive' = (receiverAlive /\ t # "sender")
    /\ UNCHANGED <<engineVars, now, storeVars, authVars, channel, callers, messages_sent,
                   handlerRun, inVars, brokerToken, apiToken, brokerThread, supervisor,
                   linker, apiServer, procTasks, adminLink, dispatchVars, topicVars, extraVars>>

\* heartbeat_task publishes on the full command channel and waits in send
HeartbeatBlocked ==
    /\ tasks["heartbeat"] = "running"
    /\ receiverAlive
    /\ tasks' = [tasks EXCEPT !["heartbeat"] = "blocked"]
    /\ UNCHANGED <<engineVars, now, storeVars, authVars, chanVars, handlerRun, inVars,
                   brokerToken, apiToken, brokerThread, supervisor, exitedEarly, linker,
                   apiServer, procTasks, adminLink, dispatchVars, topicVars, extraVars>>

\* the send of heartbeat_task ends: mqtt_send_handler has made room, or its
\* receiver is gone and the task breaks out of its loop
HeartbeatUnblocked ==
    /\ tasks["heartbeat"] = "blocked"
    /\ tasks' = [tasks EXCEPT !["heartbeat"] = IF receiverAlive THEN "running" ELSE "returned"]
    /\ exitedEarly' = (exitedEarly \/ (~receiverAlive /\ ~brokerToken))
    /\ UNCHANGED <<engineVars, now, storeVars, authVars, chanVars, handlerRun, inVars,
                   brokerToken, apiToken, brokerThread, supervisor, linker, apiServer,
                   procTasks, adminLink, dispatchVars, topicVars, extraVars>>

\* select! of start_event_handlers takes the join_next branch
SupervisorJoin ==
    /\ supervisor = "running"
    /\ \E t \in AdapterTasks : tasks[t] = "returned"
    /\ supervisor' = SupervisorOnJoin(brokerToken).result
    /\ brokerToken' = (brokerToken \/ SupervisorOnJoin(brokerToken).cancel)
    /\ UNCHANGED <<engineVars, now, storeVars, authVars, chanVars, handlerRun, inVars,
                   apiToken, brokerThread, tasks, exitedEarly, linker, apiServer, procTasks,
                   adminLink, dispatchVars, topicVars, extraVars>>

\* select! of start_event_handlers takes the token.cancelled() branch
SupervisorCancelled ==
    /\ supervisor = "running"
    /\ brokerToken
    /\ supervisor' = "ok"
    /\ UNCHANGED <<engineVars, now, storeVars, authVars, chanVars, handlerRun, inVars,
                   brokerToken, apiToken, brokerThread, tasks, exitedEarly, linker,
                   apiServer, procTasks, adminLink, dispatchVars, topicVars, extraVars>>

\* start_event_handlers has returned and dropped its JoinSet: task t is dropped
\* at its await
AbortTask(t) ==
    /\ supervisor # "running"
    /\ tasks[t] = "running"
    /\ tasks' = [tasks EXCEPT ![t] = JoinSetDrop(tasks[t])]
    /\ receiverAlive' = (receiverAlive /\ ~(t = "sender" /\ tasks'[t] # "running"))
    /\ UNCHANGED <<engineVars, now, storeVars, authVars, channel, callers, messages_sent,
                   handlerRun, inVars, brokerToken, apiToken, brokerThread, supervisor,
                   exitedEarly, linker, apiServer, procTasks, adminLink, dispatchVars,
                   topicVars, extraVars>>

\* MqttServer::shutdown, or Ctrl-C in run_server: the broker token is cancelled
Shutdown ==
    /\ ~brokerToken
    /\ brokerToken' = TRUE
    /\ UNCHANGED <<engineVars, now, storeVars, authVars, chanVars, handlerRun, inVars,
                   apiToken, brokerThread, tasks, supervisor, exitedEarly, linker,
                   apiServer, procTasks, adminLink, dispatchVars, topicVars, extraVars>>

\* the holder of the token start_api_server returned cancels it
ApiCancel ==
    /\ ~apiToken
    /\ apiToken' = TRUE
    /\ UNCHANGED <<engineVars, now, storeVars, authVars, chanVars, handlerRun, inVars,
                   brokerToken, brokerThread, tasks, supervisor, exitedEarly, linker,
                   apiServer, procTasks, adminLink, dispatchVars, topicVars, extraVars>>

\* the task start_server spawns: select! over both tokens, one branch runs
Linker ==
    /\ linker = "waiting"
    /\ \E branch \in {"broker_cancelled", "api_cancelled"} :
          /\ branch = "broker_cancelled" => brokerToken
          /\ branch = "api_cancelled" => apiToken
          /\ linker' = branch
          /\ apiToken' = (apiToken \/ LinkerBranch(branch).api)
          /\ brokerToken' = (brokerToken \/ LinkerBranch(branch).broker)
    /\ UNCHANGED <<engineVars, now, storeVars, authVars, chanVars, handlerRun, inVars,
                   brokerThread, tasks, supervisor, exitedEarly, apiServer, procTasks,
                   adminLink, dispatchVars, topicVars, extraVars>>

\* axum::serve(..).with_graceful_shutdown: the shutdown future completes
ApiGracefulShutdown ==
    /\ apiServer = "serving"
    /\ apiToken
    /\ apiServer' = "shutting_down"
    /\ UNCHANGED <<engineVars, now, storeVars, authVars, chanVars, handlerRun, inVars,
                   brokerToken, apiToken, brokerThread, tasks, supervisor, exitedEarly,
                   linker, procTasks, adminLink, dispatchVars, topicVars, extraVars>>

\* connection_monitor: recv() on the closed status channel returns Err
ConnectionMonitorClosed ==
    /\ procTasks["connection_monitor"] = "running"
    /\ adminLink = "closed"
    /\ statusChannel = <<>>
    /\ procTasks' = [procTasks EXCEPT !["connection_monitor"] = "returned"]
    /\ UNCHANGED <<engineVars, now, storeVars, authVars, chanVars, handlerRun, inVars,
                   brokerToken, apiToken, brokerThread, tasks, supervisor, exitedEarly,
                   linker, apiServer, adminLink, dispatchVars, topicVars, extraVars>>

CancelNext ==
    \/ BrokerThreadExit
    \/ \E t \in AdapterTasks : TaskExit(t)
    \/ HeartbeatBlocked
    \/ HeartbeatUnblocked
    \/ SupervisorJoin
    \/ SupervisorCancelled
    \/ \E t \in AdapterTasks : AbortTask(t)
    \/ Shutdown
    \/ ApiCancel
    \/ Linker
    \/ ApiGracefulShutdown

SpecCancel == CancelInit /\ [][CancelNext]_vars

CancelFairness ==
    /\ WF_vars(SupervisorJoin \/ SupervisorCancelled)
    /\ \A t \in AdapterTasks : WF_vars(AbortTask(t))
    /\ WF_vars(HeartbeatUnblocked)
    /\ WF_vars(Linker)
    /\ WF_vars(ApiGracefulShutdown)

SpecCancelFair == SpecCancel /\ CancelFairness

\* the same with the processor tasks on the admin stream
ShutdownNext ==
    \/ CancelNext
    \/ StreamWorkerStep(CancelMessages, MaxCancelMessages)
    \/ AdminLinkClose
    \/ StreamWorkerClosed
    \/ ConnectionMonitorClosed

SpecShutdownFair == CancelInit /\ [][ShutdownNext]_vars /\ CancelFairness

AdapterTaskEnded(t) == tasks[t] \in {"returned", "aborted", "absent"}

SupervisorReturn ==
    (supervisor = "running" /\ supervisor' # "running") =>
        /\ brokerToken'
        /\ supervisor' = "err" <=> ~brokerToken
        /\ supervisor' = "err" => \E t \in AdapterTasks : tasks[t] = "returned"
C12_TasksEndAfterCancel ==
    brokerToken ~> (\A t \in AdapterTasks : AdapterTaskEnded(t))

C12_Witness ==
    /\ brokerToken
    /\ supervisor = "ok"
    /\ ~exitedEarly
    /\ tasks["heartbeat"] # "absent"
    /\ \A t \in AdapterTasks : AdapterTaskEnded(t)
    /\ tasks["alerts"] = "aborted"

\* C13: whenever the broker thread has exited, whether broker.start()
\* returned normally or with an error, the cancellation token is tripped.
C13_BrokerExitTripsToken == brokerThread # "running" => brokerToken

\* C14: tripping the root token makes the broker supervisor stop, every
\* processor task return at its next channel operation (the admin-stream
\* worker takes no further publish), and the HTTP server begin its graceful
\* shutdown.
C14_RootCancelStopsAll ==
    /\ [][brokerToken => dispatched' = dispatched]_vars
    /\ brokerToken ~> (supervisor # "running")
    /\ brokerToken ~> (\A p \in ProcessorTasks : procTasks[p] = "returned")
    /\ brokerToken ~> (apiServer = "shutting_down")

\* C15: tripping the token of the broker adapter or of the HTTP API
\* eventually trips the root token (the broker token) and the token of the
\* other subsystem.
C15_CancellationComposes ==
    /\ apiToken ~> brokerToken
    /\ brokerToken ~> apiToken

C15_Witness ==
    /\ linker = "api_cancelled"
    /\ brokerToken
    /\ supervisor = "ok"
    /\ brokerThread = "running"
    /\ ~exitedEarly

\* a published topic, given by its prefix and levels, as the pieces of its string
TopicPieces(topic) ==
    config.shadow_topic_prefix \o Join([i \in 1..(Len(topic) - 1) |-> <<topic[i + 1]>>])

\* C21: every delta the processor publishes is on the topic of an update it
\* received, followed by /delta: the <dev> level of the delta topic is the
\* <dev> level of the inbound topic, with its <tenant>. qualifier when the
\* inbound topic carried one.
C21_DeltaTopicKeepsDevSegment ==
    \A i \in DOMAIN channel :
        (channel[i].cmd = "Publish" /\ channel[i].message.topic[Len(channel[i].message.topic)] = "delta") =>
            \E j \in DOMAIN dispatched :
                /\ dispatched[j].type.type = "ShadowUpdate"
                /\ TopicPieces(channel[i].message.topic) = dispatched[j].topic \o <<Slash, "delta">>

\* the message is a publish on <prefix><dev>/time/request
IsTimeRequest(d) ==
    /\ d.topic_utf8
    /\ StripPrefix(d.topic, config.shadow_topic_prefix).some
    /\ FitsRow(Split(StripPrefix(d.topic, config.shadow_topic_prefix).rest, Slash), TimeRequestRow)

\* C22: every publish on <prefix><dev>/time/request gets one response on
\* <prefix><dev>/time/response carrying server_time: once the publish has been
\* taken, its time-request handler is running or the response is queued.
C22_TimeRequestAnswered ==
    \A i \in DOMAIN dispatched :
        IsTimeRequest(dispatched[i]) =>
            \/ \E t \in pending : t.id = i /\ t.handler = "time_request"
            \/ \E k \in DOMAIN channel :
                  /\ channel[k].cmd = "Publish"
                  /\ TopicPieces(channel[k].message.topic) =
                        SubSeq(dispatched[i].topic, 1, Len(dispatched[i].topic) - 1) \o <<"response">>
                  /\ "server_time" \in DOMAIN channel[k].message.payload

(***************************************************************************)
(* Specification SpecMonitor: the broker sends ClientStatus events on the  *)
(* connection-status broadcast and connection_monitor applies them to the  *)
(* ConnectionSet.  A receiver of the broadcast that is MaxBacklog events   *)
(* behind loses the oldest one and its next recv() returns Err(Lagged).    *)
(***************************************************************************)
MaxEvents == 3
MaxBacklog == 2

StatusEvents == [kind : {"Connected", "Disconnected"}, client_id : ClientIds]

\* a monitor that only ever inserts
ApplyStatusInsertOnly(clients, status) == clients \cup {status.client_id}

\* the match of connection_monitor on one ClientStatus
ApplyStatus(clients, status) ==
    IF status.kind = "Connected" THEN clients \cup {status.client_id}
    ELSE clients \ {status.client_id}

MonitorInit ==
    /\ StoreIdle
    /\ EngineIdle
    /\ AdapterIdle
    /\ CancelIdle
    /\ NothingDispatched
    /\ NothingClassified
    /\ config = DefaultProcessorConfig
    /\ ExtraIdle

\* the broker sends one event on the broadcast
StatusEmit ==
    /\ adminLink = "open"
    /\ Len(emitted) < MaxEvents
    /\ \E e \in StatusEvents :
          /\ emitted' = Append(emitted, e)
          /\ IF procTasks["connection_monitor"] # "running"
             THEN /\ lagged' = TRUE
                  /\ UNCHANGED statusChannel
             ELSE IF Len(statusChannel) = MaxBacklog
             THEN /\ lagged' = TRUE
                  /\ statusChannel' = Append(Tail(statusChannel), e)
             ELSE /\ statusChannel' = Append(statusChannel, e)
                  /\ UNCHANGED lagged
    /\ UNCHANGED <<engineVars, now, storeVars, authVars, chanVars, handlerRun, inVars,
                   cancelVars, dispatchVars, topicVars, connected_clients, dataVars, lateVars>>

\* one turn of the loop of connection_monitor: recv() gives the next event, or
\* Err(Lagged) after a loss, which ends the loop
ConnectionMonitorStep ==
    /\ procTasks["connection_monitor"] = "running"
    /\ lagged \/ statusChannel # <<>>
    /\ IF lagged
       THEN /\ procTasks' = [procTasks EXCEPT !["connection_monitor"] = "returned"]
            /\ UNCHANGED <<statusChannel, connected_clients>>
       ELSE /\ connected_clients' = ApplyStatus(connected_clients, Head(statusChannel))
            /\ statusChannel' = Tail(statusChannel)
            /\ UNCHANGED procTasks
    /\ UNCHANGED <<engineVars, now, storeVars, authVars, chanVars, handlerRun, inVars,
                   brokerToken, apiToken, brokerThread, tasks, supervisor, exitedEarly,
                   linker, apiServer, adminLink, dispatchVars, topicVars, emitted, lagged,
                   dataVars, lateVars>>

MonitorNext ==
    \/ StatusEmit
    \/ ConnectionMonitorStep
    \/ AdminLinkClose
    \/ ConnectionMonitorClosed

SpecMonitor == MonitorInit /\ [][MonitorNext]_vars

\* every event sent has been received by the monitor
AllDelivered == statusChannel = <<>> /\ ~lagged

\* the clients whose most recent event is Connected
LastConnected ==
    {c \in ClientIds :
        \E i \in DOMAIN emitted :
            /\ emitted[i] = [kind |-> "Connected", client_id |-> c]
            /\ \A j \in (i + 1)..Len(emitted) : emitted[j].client_id # c}

\* C23: once every event sent on the connection-status broadcast has been
\* delivered, the ConnectionSet holds exactly the client ids whose most recent
\* event is Connected.
C23_ConnectionSetFollowsEvents == AllDelivered => connected_clients = LastConnected

C23_Witness ==
    /\ AllDelivered
    /\ emitted = <<[kind |-> "Connected", client_id |-> "dev1"],
                   [kind |-> "Connected", client_id |-> "dev2"],
                   [kind |-> "Disconnected", client_id |-> "dev1"]>>
    /\ connected_clients = {"dev2"}

(***************************************************************************)
(* Data configs.  A DataConfig is the sequence of its MetricConfigs; table *)
(* data_configs holds one row per (tenant_id, device_prefix), the prefix   *)
(* "" being the tenant-wide row.  A prefix and a device id are sequences   *)
(* of pieces, as topics are.  DB::new always sets pool to Some, so the     *)
(* DatabaseConnectionError branches are never taken.                       *)
(***************************************************************************)
MaxMetrics == 2

MetricConfigs ==
    [name : {"t", "h"},
     point : {[json_pointer |-> "/temperature", data_type |-> "Float"],
              [json_pointer |-> "/temp", data_type |-> "Int"]}]

DataConfigs == UNION {[1..n -> MetricConfigs] : n \in 0..MaxMetrics}

\* merged.iter_mut().find(|m| m.name == om.name): the first index, or 0
FindName(merged, name) ==
    IF \E i \in DOMAIN merged : merged[i].name = name
    THEN CHOOSE i \in DOMAIN merged :
            /\ merged[i].name = name
            /\ \A j \in 1..(i - 1) : merged[j].name # name
    ELSE 0

\* the body of the loop of merge_with
MergeOne(merged, om) ==
    IF FindName(merged, om.name) # 0
    THEN [merged EXCEPT ![FindName(merged, om.name)] = om]
    ELSE Append(merged, om)

RECURSIVE MergeLoop(_, _)
MergeLoop(merged, others) ==
    IF others = <<>> THEN merged
    ELSE MergeLoop(MergeOne(merged, Head(others)), Tail(others))

\* DataConfig::merge_with
MergeWith(self, other) == MergeLoop(self, other)

\* str::starts_with
StartsWith(s, prefix) ==
    /\ Len(prefix) <= Len(s)
    /\ \A i \in DOMAIN prefix : s[i] = prefix[i]

DevicePrefixes == {<<"device">>, <<"device", "A">>}
DataDeviceIds == {<<"device", "A", "1">>, <<"device", "B">>, <<"other">>}
NoDevice == <<"none">>
StoredConfigs ==
    {<<[name |-> "t", point |-> [json_pointer |-> "/temperature", data_type |-> "Float"]]>>,
     <<[name |-> "t", point |-> [json_pointer |-> "/temp", data_type |-> "Int"]]>>,
     <<[name |-> "h", point |-> [json_pointer |-> "/temperature", data_type |-> "Float"]],
       [name |-> "t", point |-> [json_pointer |-> "/temp", data_type |-> "Int"]]>>}

\* the rows SELECT ... WHERE tenant_id = $1 AND device_prefix = '' returns
TenantRows(table, tenant_id) ==
    {r \in table : r.tenant_id = tenant_id /\ r.device_prefix = <<>>}

\* the rows of the tenant with a non-empty prefix that device_id starts with
MatchingRows(table, tenant_id, device_id) ==
    {r \in table : /\ r.tenant_id = tenant_id
                   /\ r.device_prefix # <<>>
                   /\ StartsWith(device_id, r.device_prefix)}

\* the loop over the rows, were it to keep the shortest matching prefix
BestDeviceRowsShortest(table, tenant_id, device_id) ==
    {r \in MatchingRows(table, tenant_id, device_id) :
        \A q \in MatchingRows(table, tenant_id, device_id) :
            Len(q.device_prefix) >= Len(r.device_prefix)}

\* the loop over the rows: best is replaced by a strictly longer prefix only
BestDeviceRows(table, tenant_id, device_id) ==
    {r \in MatchingRows(table, tenant_id, device_id) :
        \A q \in MatchingRows(table, tenant_id, device_id) :
            Len(q.device_prefix) <= Len(r.device_prefix)}

\* Store::get_data_config; the Option it returns is a sequence of at most one
\* DataConfig
GetDataConfig(table, tenant_id, device_id) ==
    LET tenant_rows == TenantRows(table, tenant_id)
        best == IF device_id = NoDevice THEN {}
                ELSE BestDeviceRows(table, tenant_id, device_id)
    IN  IF best # {}
        THEN IF tenant_rows # {}
             THEN <<MergeWith((CHOOSE r \in tenant_rows : TRUE).config,
                              (CHOOSE r \in best : TRUE).config)>>
             ELSE <<(CHOOSE r \in best : TRUE).config>>
        ELSE IF tenant_rows # {}
             THEN <<(CHOOSE r \in tenant_rows : TRUE).config>>
             ELSE <<>>

\* DELETE ... WHERE tenant_id = $1 AND device_prefix = $2
DeleteRow(table, tenant_id, prefix) ==
    {r \in table : ~(r.tenant_id = tenant_id /\ r.device_prefix = prefix)}

DataConfigInit ==
    /\ StoreIdle
    /\ EngineIdle
    /\ AdapterIdle
    /\ CancelIdle
    /\ NothingDispatched
    /\ NothingClassified
    /\ config = DefaultProcessorConfig
    /\ ExtraIdle

\* a write to the table leaves no call to look at: dataCall describes a call
\* made on the table as it is
DataUnchanged ==
    UNCHANGED <<engineVars, now, storeVars, authVars, chanVars, handlerRun, inVars,
                cancelVars, dispatchVars, topicVars, monitorVars, lateVars>>

\* Store::store_tenant_data_config: DELETE then INSERT in one transaction
StoreTenantDataConfig ==
    /\ \E t \in Tenants, c \in StoredConfigs :
          data_configs' = DeleteRow(data_configs, t, <<>>)
                            \cup {[tenant_id |-> t, device_prefix |-> <<>>, config |-> c]}
    /\ dataCall' = NoDataCall
    /\ DataUnchanged

\* Store::store_device_data_config: DELETE then INSERT in one transaction
StoreDeviceDataConfig ==
    /\ \E t \in Tenants, p \in DevicePrefixes, c \in StoredConfigs :
          data_configs' = DeleteRow(data_configs, t, p)
                            \cup {[tenant_id |-> t, device_prefix |-> p, config |-> c]}
    /\ dataCall' = NoDataCall
    /\ DataUnchanged

\* Store::delete_data_config: a prefix of None deletes the tenant-wide row
DeleteDataConfig ==
    /\ \E t \in Tenants, p \in DevicePrefixes \cup {<<>>} :
          /\ \E r \in data_configs : r.tenant_id = t /\ r.device_prefix = p
          /\ data_configs' = DeleteRow(data_configs, t, p)
    /\ dataCall' = NoDataCall
    /\ DataUnchanged

\* a call of Store::get_data_config, with Some(device_id) or None
GetDataConfigCall ==
    /\ \E t \in Tenants, d \in DataDeviceIds \cup {NoDevice} :
          dataCall' = [op |-> "get_data_config", tenant_id |-> t, device_id |-> d,
                       result |-> GetDataConfig(data_configs, t, d)]
    /\ UNCHANGED data_configs
    /\ DataUnchanged

DataConfigNext ==
    \/ StoreTenantDataConfig
    \/ StoreDeviceDataConfig
    \/ DeleteDataConfig
    \/ GetDataConfigCall

SpecDataConfig == DataConfigInit /\ [][DataConfigNext]_vars

\* the tenant-wide config of a tenant and the stored device config of the
\* tenant whose non-empty prefix is the longest prefix of the device id
TenantCfg(t) ==
    {r.config : r \in {q \in data_configs : q.tenant_id = t /\ q.device_prefix = <<>>}}
LongestPrefixCfg(t, d) ==
    {r.config : r \in {q \in data_configs :
        /\ q.tenant_id = t
        /\ q.device_prefix # <<>>
        /\ StartsWith(d, q.device_prefix)
        /\ \A p \in data_configs :
              (p.tenant_id = t /\ p.device_prefix # <<>> /\ StartsWith(d, p.device_prefix))
                  => Len(p.device_prefix) <= Len(q.device_prefix)}}

\* C24: get_data_config(T, D) is the merge of the tenant-wide config of T with
\* the device config of T stored under the longest non-empty prefix of D; when
\* only one of the two exists it is returned as stored, and when neither
\* exists the result is None.
C24_EffectiveConfig ==
    (dataCall.op = "get_data_config" /\ dataCall.device_id # NoDevice) =>
        LET T == TenantCfg(dataCall.tenant_id)
            D == LongestPrefixCfg(dataCall.tenant_id, dataCall.device_id)
        IN  /\ Cardinality(T) <= 1
            /\ Cardinality(D) <= 1
            /\ (T # {} /\ D # {}) =>
                  \E tc \in T, dc \in D : dataCall.result = <<MergeWith(tc, dc)>>
            /\ (T # {} /\ D = {}) => \E tc \in T : dataCall.result = <<tc>>
            /\ (T = {} /\ D # {}) => \E dc \in D : dataCall.result = <<dc>>
            /\ (T = {} /\ D = {}) => dataCall.result = <<>>

C24_Witness ==
    /\ dataCall.op = "get_data_config"
    /\ dataCall.tenant_id = "acme"
    /\ dataCall.device_id = <<"device", "A", "1">>
    /\ \E r \in data_configs : r.tenant_id = "acme" /\ r.device_prefix = <<"device">>
    /\ \E r \in data_configs :
          /\ r.tenant_id = "acme"
          /\ r.device_prefix = <<"device", "A">>
          /\ r.config[1].name = "h"
    /\ \E r \in data_configs :
          /\ r.tenant_id = "acme"
          /\ r.device_prefix = <<>>
          /\ r.config[1].name = "t"
    /\ Len(dataCall.result[1]) = 2
    /\ dataCall.result[1][2].name = "h"

(***************************************************************************)
(* Specification SpecMerge: DataConfig::merge_with applied to every pair   *)
(* of DataConfigs of up to MaxMetrics metrics.  Nothing checks the names   *)
(* of a DataConfig (the API stores the Json<DataConfig> it is sent), so a  *)
(* name may occur twice in one config.                                     *)
(***************************************************************************)
MergeWithCall ==
    /\ \E self \in DataConfigs, other \in DataConfigs :
          dataCall' = [op |-> "merge_with", self |-> self, other |-> other,
                       result |-> MergeWith(self, other)]
    /\ UNCHANGED data_configs
    /\ DataUnchanged

SpecMerge == DataConfigInit /\ [][MergeWithCall]_vars

NamesOf(c) == {c[i].name : i \in DOMAIN c}
NotNamedIn(c, m) == m.name \notin NamesOf(c)

\* C25: merge(T, D) keeps T's metrics in T's order, with every metric of T
\* whose name is the name of a metric of D replaced by D's metric of that
\* name, and then holds D's metrics whose names do not occur in T, in D's
\* order.
C25_MergeRule ==
    dataCall.op = "merge_with" =>
        LET T == dataCall.self
            D == dataCall.other
            rest == SelectSeq(D, LAMBDA m : NotNamedIn(T, m))
            merged == dataCall.result
        IN  /\ Len(merged) = Len(T) + Len(rest)
            /\ \A i \in DOMAIN T :
                  IF T[i].name \in NamesOf(D)
                  THEN \E j \in DOMAIN D : D[j].name = T[i].name /\ merged[i] = D[j]
                  ELSE merged[i] = T[i]
            /\ \A k \in DOMAIN rest : merged[Len(T) + k] = rest[k]

\* C25 for configs in which no name occurs twice
C25_MergeRuleDistinctNames ==
    (/\ dataCall.op = "merge_with"
     /\ Cardinality(NamesOf(dataCall.self)) = Len(dataCall.self)
     /\ Cardinality(NamesOf(dataCall.other)) = Len(dataCall.other)) =>
        C25_MergeRule

(***************************************************************************)
(* Identity preconditions of Shadow::update, under SpecEngine.             *)
(***************************************************************************)
IdentityDiffers(s, u) ==
    \/ u.device_id # s.device_id
    \/ u.shadow_name # s.shadow_name
    \/ u.tenant_id # s.tenant_id

\* C26: an update whose device_id, shadow_name or tenant_id differs from the
\* shadow's is rejected with an error and the shadow is left as it was; when
\* only the device_id differs the error is DeviceIdMismatch, when only the
\* shadow_name differs it is ShadowNameMismatch, and when both differ it is
\* one of the two.
C26_MismatchRejected ==
    (lastUpdate # NoUpdate /\ IdentityDiffers(prevShadow, lastUpdate)) =>
        /\ lastResult \notin {"ok", "none"}
        /\ shadow = prevShadow
        /\ (lastUpdate.device_id # prevShadow.device_id
              /\ lastUpdate.shadow_name = prevShadow.shadow_name)
                => lastResult = "DeviceIdMismatch"
        /\ (lastUpdate.shadow_name # prevShadow.shadow_name
              /\ lastUpdate.device_id = prevShadow.device_id)
                => lastResult = "ShadowNameMismatch"
        /\ (lastUpdate.shadow_name # prevShadow.shadow_name
              /\ lastUpdate.device_id # prevShadow.device_id)
                => lastResult \in {"DeviceIdMismatch", "ShadowNameMismatch"}

C26_Witness ==
    /\ lastUpdate # NoUpdate
    /\ lastUpdate.shadow_name = "main"
    /\ lastUpdate.device_id = "dev1"
    /\ lastResult = "ShadowNameMismatch"
    /\ shadow.version = 1
    /\ shadow.state.reported # JNull
    /\ shadow = prevShadow

(***************************************************************************)
(* Convergence of reported and desired, under SpecEngine.                  *)
(***************************************************************************)
\* the last update was applied and left reported equal to desired
Converged ==
    /\ lastUpdate # NoUpdate
    /\ lastResult = "ok"
    /\ shadow.state.reported = shadow.state.desired

\* C27: when an update leaves reported equal to desired the delta is null, and
\* applying the same update once more leaves reported, desired and delta as
\* they are.
C27_ConvergedIsFixpoint ==
    Converged =>
        /\ shadow.state.delta = JNull
        /\ \A n \in {now, now + 1} : Update(shadow, lastUpdate, n).state = shadow.state

C27_Witness ==
    /\ Converged
    /\ shadow.version = 2
    /\ prevShadow.state.delta # JNull
    /\ IsObj(shadow.state.reported)
    /\ shadow.state.reported.v # EmptyFn
    /\ Update(shadow, lastUpdate, now).version = 3

(***************************************************************************)
(* Specification SpecFrame: _upsert_shadow and _delete_shadow on three     *)
(* keys that share the device id: the same device under two tenants and    *)
(* under two shadow names.  The table starts empty or as one earlier       *)
(* upsert on each key has left it; the calls run statement by statement as *)
(* in SpecStore.                                                           *)
(***************************************************************************)
FrameKeys ==
    {<<"default", "dev1", "default">>, <<"acme", "dev1", "default">>,
     <<"default", "dev1", "main">>}

\* the row the first upsert on a key leaves
FirstRow(k) ==
    Update(NewShadow(k[2], k[3], k[1]),
           StateUpdateDocument(k[2], k[3], k[1], JObj([i \in {"a"} |-> JNum(1)]), JNull), 1)

FrameInit ==
    /\ backend \in Backends
    /\ shadows \in {[k \in FrameKeys |-> NoRow], [k \in FrameKeys |-> FirstRow(k)]}
    /\ tx = [t \in Calls |-> IdleCall]
    /\ returns = [k \in FrameKeys |-> <<>>]
    /\ EngineIdle
    /\ BrokerIdle

\* the start of a call of _upsert_shadow on one of the keys
FrameBegin(t) ==
    /\ tx[t].pc = "idle"
    /\ \E k \in FrameKeys :
         tx' = [tx EXCEPT ![t] =
                  [pc |-> "begun", key |-> k,
                   update |-> StateUpdateDocument(k[2], k[3], k[1], JNull,
                                                  JObj([i \in {"a"} |-> JNum(2)])),
                   shadow |-> NoRow, deleted |-> FALSE, stale |-> FALSE]]
    /\ UNCHANGED <<engineVars, now, backend, shadows, returns, brokerVars>>

\* DELETE FROM shadows WHERE device_id = $2, were the statement to leave out
\* tenant_id and shadow_name
DeleteShadowRowsOfDevice(table, key) ==
    [k \in DOMAIN table |-> IF k[2] = key[2] THEN NoRow ELSE table[k]]

\* DELETE FROM shadows WHERE tenant_id = $1 AND device_id = $2 AND shadow_name = $3
DeleteShadowRows(table, key) ==
    [k \in DOMAIN table |-> IF k = key THEN NoRow ELSE table[k]]

\* _delete_shadow: one statement on the pool, committed as it ends.  SQLite
\* waits while a transaction writes; PostgreSQL waits while a transaction has
\* written the row.
DeleteShadow(t) ==
    /\ tx[t].pc = "idle"
    /\ \E k \in FrameKeys :
         /\ IF backend = "sqlite"
            THEN \A o \in Calls \ {t} : tx[o].pc \notin {"deleted", "inserted"}
            ELSE \A o \in Calls \ {t} :
                    (InFlight(o) /\ tx[o].key = k) => (~tx[o].deleted /\ tx[o].pc # "inserted")
         /\ shadows' = DeleteShadowRows(shadows, k)
         /\ tx' = [o \in Calls |->
                     IF o = t THEN [pc |-> "delete_done", key |-> k, update |-> NoUpdate,
                                    shadow |-> NoRow, deleted |-> (shadows[k] # NoRow),
                                    stale |-> FALSE]
                     ELSE IF InFlight(o) THEN [tx[o] EXCEPT !.stale = (tx[o].pc # "begun")]
                     ELSE tx[o]]
    /\ UNCHANGED <<engineVars, now, backend, returns, brokerVars>>

FrameNext ==
    \E t \in Calls :
        \/ FrameBegin(t) \/ TxSelect(t) \/ TxDelete(t) \/ TxInsert(t) \/ TxCommit(t)
        \/ TxFail(t) \/ DeleteShadow(t)

SpecFrame == FrameInit /\ [][FrameNext]_vars

\* call t ends a write in this step: its upsert commits or its delete runs
WritesIn(t) ==
    \/ tx[t].pc = "inserted" /\ tx'[t].pc = "committed"
    \/ tx[t].pc = "idle" /\ tx'[t].pc = "delete_done"

\* C28: upsert_shadow or delete_shadow on one (tenant, device, shadow name)
\* leaves the shadow under every other key as it was: a row changes only in
\* the step in which an upsert or a delete on its own key takes effect.
C28_OtherKeysUnchanged ==
    [][\A k \in FrameKeys :
          shadows'[k] # shadows[k] => \E t \in Calls : WritesIn(t) /\ tx'[t].key = k]_vars

C28_Witness ==
    /\ \E t \in Calls :
          /\ tx[t].pc = "delete_done"
          /\ tx[t].key = <<"default", "dev1", "default">>
          /\ tx[t].deleted
    /\ \E t \in Calls :
          /\ tx[t].pc = "committed"
          /\ tx[t].key = <<"acme", "dev1", "default">>
    /\ shadows[<<"default", "dev1", "default">>] = NoRow
    /\ shadows[<<"acme", "dev1", "default">>] # NoRow
    /\ shadows[<<"acme", "dev1", "default">>].version = 2
    /\ shadows[<<"default", "dev1", "main">>] = FirstRow(<<"default", "dev1", "main">>)

(***************************************************************************)
(* Tenant resolution and Store errors in auth, under SpecAuth.             *)
(***************************************************************************)
\* the request of the call presents a certificate whose CN is the client id
CertificateMatches(call) ==
    call.req.common_name # "" /\ call.req.common_name = call.req.client_id

\* C29: auth uses the tenant named by the certificate Organization when it is
\* not empty and "default" otherwise (any casing of "default" names the default
\* tenant); without a stored row for that tenant the default policy applies,
\* passwords disabled and certificates enabled, and with a stored row the
\* policy of that row, never another tenant's; an accepted connection is
\* bound to that tenant.
C29_TenantFromOrganization ==
    [][authCall' # authCall =>
        LET call == authCall'
            t == ResolvedTenant(call.req)
            answered == call.result.kind # "err"
            accepted == call.result.kind = "accept"
        IN  /\ accepted => call.result.tenant = t
            /\ (answered /\ tenants[t] = NoTenant) => (accepted <=> CertificateMatches(call))
            /\ (answered /\ tenants[t] # NoTenant /\ CertificateMatches(call)) =>
                  (accepted <=> tenants[t].auth_config.allow_certificates)
            /\ (accepted /\ call.req.common_name = "") =>
                  /\ tenants[t] # NoTenant
                  /\ tenants[t].auth_config.allow_passwords
                  /\ PasswordVerifies(t, call.req)]_vars

\* a certificate of organization acme is accepted for tenant acme, which has
\* no stored row, while the stored policy of the default tenant refuses
\* certificates
C29_Witness ==
    /\ authCall # NoCall
    /\ authCall.req.organization = "acme"
    /\ authCall.req.common_name = "dev1"
    /\ authCall.result.kind = "accept"
    /\ authCall.result.tenant = "acme"
    /\ tenants["acme"] = NoTenant
    /\ tenants["default"] # NoTenant
    /\ ~tenants["default"].auth_config.allow_certificates

\* the Store is not there, or a Store query the call makes fails
StoreFailsIn(call) ==
    \/ ~globalDb
    \/ call.env = "get_tenant_fails"
    \/ /\ call.env = "verify_fails"
       /\ call.req.common_name = ""
       /\ call.req.username # ""
       /\ TenantPolicy(ResolvedTenant(call.req)).allow_passwords

\* C30: a call of auth during which the Store is unavailable or a Store
\* operation fails never accepts the connection: it ends in an error, which
\* the broker treats as a rejection.
C30_StoreErrorRejects ==
    [][(authCall' # authCall /\ StoreFailsIn(authCall')) =>
          authCall'.result.kind = "err"]_vars

\* the password of a provisioned credential, under a tenant that allows
\* passwords, is not accepted while verify_device_password fails
C30_Witness ==
    /\ authCall # NoCall
    /\ globalDb
    /\ authCall.env = "verify_fails"
    /\ authCall.req.common_name = ""
    /\ authCall.req.username = "u1"
    /\ authCall.req.password = "pw1"
    /\ authCall.req.client_id = "dev1"
    /\ PasswordVerifies("default", authCall.req)
    /\ tenants["default"] # NoTenant
    /\ tenants["default"].auth_config.allow_passwords
    /\ authCall.result.kind = "err"

(***************************************************************************)
(* Time series.  Table timeseries_data has no key: every put_metric        *)
(* INSERTs a row stamped with the wall clock in seconds.  The timestamp    *)
(* column is a signed BIGINT and the u64 arguments are cast with `as i64`; *)
(* the model keeps the casts on words of TsWord values.  A query folds its *)
(* rows into a MetricTimeSeries with add_point.                            *)
(***************************************************************************)
TsWord == 8
MaxPoints == 3

\* u64 as i64 and i64 as u64, on the model's word
AsI64(u) == IF u >= TsWord \div 2 THEN u - TsWord ELSE u
AsU64(i) == IF i < 0 THEN i + TsWord ELSE i

\* the start and end of the range queries: small seconds and the largest u64
QueryBounds == {0, 1, 2, TsWord - 1}
SeriesKeys == {<<"default", "dev1", "t">>, <<"acme", "dev1", "t">>}
MetricValues == {[kind |-> "Float", v |-> 1], [kind |-> "Float", v |-> 2]}
\* a nullable column holds <<>> (NULL) or <<v>>
Null == <<>>
NoValue == [kind |-> "none"]

\* the row insert_metric_row binds
MetricRow(tenant_id, device_id, metric_name, timestamp, value) ==
    [timestamp |-> AsI64(timestamp), tenant_id |-> tenant_id, device_id |-> device_id,
     metric_name |-> metric_name,
     value_float |-> IF value.kind = "Float" THEN <<value.v>> ELSE Null,
     value_int |-> IF value.kind = "Int" THEN <<value.v>> ELSE Null,
     value_lat |-> IF value.kind = "Location" THEN <<value.v[1]>> ELSE Null,
     value_long |-> IF value.kind = "Location" THEN <<value.v[2]>> ELSE Null]

\* the MetricValue a query reads from a row, or NoValue when every column is NULL
RowValue(row) ==
    IF row.value_float # Null THEN [kind |-> "Float", v |-> row.value_float[1]]
    ELSE IF row.value_int # Null THEN [kind |-> "Int", v |-> row.value_int[1]]
    ELSE IF row.value_lat # Null /\ row.value_long # Null
         THEN [kind |-> "Location", v |-> <<row.value_lat[1], row.value_long[1]>>]
    ELSE NoValue

\* TimeSeries::add_point, were it to keep every point of a timestamp
AddPointKeepAll(series, timestamp, value) ==
    LET at == Cardinality({i \in DOMAIN series : series[i].timestamp <= timestamp})
    IN  SubSeq(series, 1, at) \o <<[timestamp |-> timestamp, value |-> value]>>
            \o SubSeq(series, at + 1, Len(series))

\* TimeSeries::add_point: replace the value of an existing timestamp, insert a
\* new timestamp at its place in the order
AddPoint(series, timestamp, value) ==
    IF \E i \in DOMAIN series : series[i].timestamp = timestamp
    THEN [i \in DOMAIN series |->
            IF series[i].timestamp = timestamp
            THEN [timestamp |-> timestamp, value |-> value] ELSE series[i]]
    ELSE LET at == Cardinality({i \in DOMAIN series : series[i].timestamp < timestamp})
         IN  SubSeq(series, 1, at) \o <<[timestamp |-> timestamp, value |-> value]>>
                \o SubSeq(series, at + 1, Len(series))

\* the loop over the rows of a query
RECURSIVE FoldRows(_, _)
FoldRows(series, rows) ==
    IF rows = <<>> THEN series
    ELSE IF RowValue(Head(rows)) = NoValue THEN FoldRows(series, Tail(rows))
    ELSE FoldRows(AddPoint(series, AsU64(Head(rows).timestamp), RowValue(Head(rows))),
                  Tail(rows))

\* the indices of the rows of a series
SeriesRows(table, key) ==
    {i \in DOMAIN table : /\ table[i].tenant_id = key[1]
                          /\ table[i].device_id = key[2]
                          /\ table[i].metric_name = key[3]}

\* the orders in which ORDER BY timestamp ASC may return the rows I: rows of
\* equal timestamp come in any order
AscOrders(table, I) ==
    {o \in [1..Cardinality(I) -> I] :
        /\ \A a, b \in DOMAIN o : a # b => o[a] # o[b]
        /\ \A a, b \in DOMAIN o : a < b => table[o[a]].timestamp <= table[o[b]].timestamp}

Reverse(s) == [i \in DOMAIN s |-> s[Len(s) + 1 - i]]

\* the rows get_metric selects: WHERE ... AND timestamp >= $4 AND timestamp <= $5
RangeRows(table, key, start, end) ==
    {i \in SeriesRows(table, key) :
        table[i].timestamp >= AsI64(start) /\ table[i].timestamp <= AsI64(end)}

SeriesInit ==
    /\ StoreIdle
    /\ EngineIdle
    /\ AdapterIdle
    /\ CancelIdle
    /\ NothingDispatched
    /\ NothingClassified
    /\ config = DefaultProcessorConfig
    /\ ExtraIdle

SeriesUnchanged ==
    UNCHANGED <<engineVars, storeVars, authVars, chanVars, handlerRun, inVars,
                cancelVars, dispatchVars, topicVars, monitorVars, dataVars, provisionVars,
                httpVars>>

\* DB::put_metric: chrono::Utc::now().timestamp() as u64, then insert_metric_row
PutMetric ==
    /\ Len(timeseries_data) < MaxPoints
    /\ \E key \in SeriesKeys, value \in MetricValues :
          timeseries_data' =
              Append(timeseries_data, MetricRow(key[1], key[2], key[3], now, value))
    /\ tsCall' = NoTsCall
    /\ UNCHANGED now
    /\ SeriesUnchanged

\* a second passes
SeriesTick ==
    /\ now < MaxPoints
    /\ now' = now + 1
    /\ UNCHANGED seriesVars
    /\ SeriesUnchanged

\* DB::get_metric
GetMetric ==
    /\ \E key \in SeriesKeys, start \in QueryBounds, end \in QueryBounds :
          \E o \in AscOrders(timeseries_data, RangeRows(timeseries_data, key, start, end)) :
              tsCall' = [op |-> "get_metric", key |-> key, start |-> start, end |-> end,
                         result |-> FoldRows(<<>>, [i \in DOMAIN o |-> timeseries_data[o[i]]])]
    /\ UNCHANGED <<now, timeseries_data>>
    /\ SeriesUnchanged

\* DB::get_last_metric: ORDER BY timestamp DESC LIMIT $4, read in reverse
GetLastMetric ==
    /\ \E key \in SeriesKeys, limit \in 0..(MaxPoints + 1) :
          \E o \in AscOrders(timeseries_data, SeriesRows(timeseries_data, key)) :
              LET desc == Reverse(o)
                  rows == SubSeq(desc, 1, IF limit < Len(desc) THEN limit ELSE Len(desc))
              IN  tsCall' = [op |-> "get_last_metric", key |-> key, limit |-> limit,
                             result |-> FoldRows(<<>>, [i \in DOMAIN rows |->
                                            timeseries_data[Reverse(rows)[i]]])]
    /\ UNCHANGED <<now, timeseries_data>>
    /\ SeriesUnchanged

SeriesNext == PutMetric \/ SeriesTick \/ GetMetric \/ GetLastMetric

SpecSeries == SeriesInit /\ [][SeriesNext]_vars

\* the stored points of a series: one per row, as <<index, point>>
StoredPoint(i) ==
    [timestamp |-> AsU64(timeseries_data[i].timestamp), value |-> RowValue(timeseries_data[i])]
Ascending(series) ==
    \A a, b \in DOMAIN series : a < b => series[a].timestamp <= series[b].timestamp
\* a sequence of points holds exactly the points of the rows I, one for each row
HoldsExactly(series, I) ==
    \E f \in [DOMAIN series -> I] :
        /\ \A a, b \in DOMAIN series : a # b => f[a] # f[b]
        /\ \A i \in I : \E a \in DOMAIN series : f[a] = i
        /\ \A a \in DOMAIN series : series[a] = StoredPoint(f[a])

\* C31: get_metric(tenant, device, name, start, end) returns every stored point
\* of the series with start <= ts <= end and no other point, in ascending
\* timestamp order.
C31_RangeQuery ==
    tsCall.op = "get_metric" =>
        LET I == {i \in SeriesRows(timeseries_data, tsCall.key) :
                     /\ tsCall.start <= StoredPoint(i).timestamp
                     /\ StoredPoint(i).timestamp <= tsCall.end}
        IN  /\ Len(tsCall.result) = Cardinality(I)
            /\ (I # {} => HoldsExactly(tsCall.result, I))
            /\ Ascending(tsCall.result)

\* C31 for tables in which no two rows of a series share a second and for
\* bounds below the sign bit
C31_RangeQueryDistinctSeconds ==
    (/\ tsCall.op = "get_metric"
     /\ tsCall.start < TsWord \div 2
     /\ tsCall.end < TsWord \div 2
     /\ \A i, j \in SeriesRows(timeseries_data, tsCall.key) :
            i # j => timeseries_data[i].timestamp # timeseries_data[j].timestamp) =>
        C31_RangeQuery

\* the N most recent rows of the series: no row left out is newer than a row taken
MostRecent(I, all) ==
    \A i \in I, j \in all \ I :
        timeseries_data[j].timestamp <= timeseries_data[i].timestamp

\* C32: get_last_metric(tenant, device, name, N) returns the N most recent
\* stored points of the series, or all of them when fewer than N are stored,
\* in ascending timestamp order.
C32_LastQuery ==
    tsCall.op = "get_last_metric" =>
        LET all == SeriesRows(timeseries_data, tsCall.key)
            n == IF tsCall.limit < Cardinality(all) THEN tsCall.limit ELSE Cardinality(all)
        IN  /\ Len(tsCall.result) = n
            /\ (n > 0 => \E I \in SUBSET all :
                            /\ Cardinality(I) = n
                            /\ MostRecent(I, all)
                            /\ HoldsExactly(tsCall.result, I))
            /\ Ascending(tsCall.result)

\* C32 for tables in which no two rows of a series share a second
C32_LastQueryDistinctSeconds ==
    (/\ tsCall.op = "get_last_metric"
     /\ \A i, j \in SeriesRows(timeseries_data, tsCall.key) :
            i # j => timeseries_data[i].timestamp # timeseries_data[j].timestamp) =>
        C32_LastQuery

(***************************************************************************)
(* Specification SpecTelemetry: handle_metric_extraction on one message of *)
(* device deviceA1 of the default tenant, under every tenant-wide config   *)
(* of up to two metrics over the four data types.                          *)
(***************************************************************************)
JStr(s) == [t |-> "str", v |-> s]
InvalidJson == [t |-> "invalid"]

\* Value::as_f64: Some for a number
AsF64(j) == IF j.t = "num" THEN <<j.v>> ELSE <<>>
\* value["key"] and value[i]: Null when the value has no such member
IndexKey(j, k) == IF j.t = "obj" /\ k \in DOMAIN j.v THEN j.v[k] ELSE JNull
IndexAt(j, i) == IF j.t = "arr" /\ i + 1 <= Len(j.v) THEN j.v[i + 1] ELSE JNull

\* Value::pointer for a pointer of one level, "/key"
Pointer(j, key) == IF j.t = "obj" /\ key \in DOMAIN j.v THEN <<j.v[key]>> ELSE <<>>

\* the conversion of extract_metrics_from_json: <<MetricValue>> or <<>>
ConvertMetric(data_type, value) ==
    IF data_type \in {"Float", "Int"}
    THEN IF AsF64(value) # <<>> THEN <<[kind |-> data_type, v |-> AsF64(value)[1]]>> ELSE <<>>
    ELSE LET lat == IF data_type = "LocationObject"
                    THEN AsF64(IndexKey(value, "lat")) ELSE AsF64(IndexAt(value, 0))
             long == IF data_type = "LocationObject"
                     THEN AsF64(IndexKey(value, "long")) ELSE AsF64(IndexAt(value, 1))
         IN  IF lat # <<>> /\ long # <<>>
             THEN <<[kind |-> "Location", v |-> <<lat[1], long[1]>>]>> ELSE <<>>

\* DataConfig::extract_metrics_from_json: the (name, value) pairs, in order
RECURSIVE ExtractMetrics(_, _)
ExtractMetrics(metrics, json) ==
    IF metrics = <<>> THEN <<>>
    ELSE LET m == Head(metrics)
             found == Pointer(json, m.point.json_pointer)
             value == IF found = <<>> THEN <<>> ELSE ConvertMetric(m.point.data_type, found[1])
         IN  (IF value = <<>> THEN <<>> ELSE <<[name |-> m.name, value |-> value[1]]>>)
                \o ExtractMetrics(Tail(metrics), json)

TelemetryMetrics ==
    {[name |-> n, point |-> [json_pointer |-> n, data_type |-> d]] :
        n \in {"temperature", "pos"},
        d \in {"Float", "Int", "LocationObject", "LocationTuple"}}
TelemetryDataConfigs == [1..1 -> TelemetryMetrics] \cup [1..2 -> TelemetryMetrics]

TelemetryValues ==
    {JNum(24), JStr("warm"),
     JObj([k \in {"lat", "long"} |-> JNum(1)]), JObj([k \in {"lat"} |-> JNum(1)]),
     JArr(<<JNum(1), JNum(2)>>), JArr(<<JNum(1)>>), JArr(<<JNum(1), JNum(2), JNum(3)>>),
     JArr(<<JNum(1), JStr("x")>>)}
TelemetryPayloads ==
    {JObj(f) : f \in UNION {[S -> TelemetryValues] : S \in SUBSET {"temperature", "pos"}}}
        \cup {InvalidJson}

TelemetryDevice == <<"device", "A", "1">>

TelemetryInit ==
    /\ StoreIdle
    /\ EngineIdle
    /\ AdapterIdle
    /\ CancelIdle
    /\ NothingDispatched
    /\ NothingClassified
    /\ config = DefaultProcessorConfig
    /\ MonitorIdle
    /\ LateIdle
    /\ dataCall = NoDataCall
    /\ data_configs \in {{}} \cup
          {{[tenant_id |-> "default", device_prefix |-> <<>>, config |-> c]} :
              c \in TelemetryDataConfigs}

\* the rows the loop over the metrics inserts; the put_metric numbered failAt
\* fails (0: none does) and ends the loop
PutMetrics(metrics, failAt) ==
    LET n == IF failAt = 0 THEN Len(metrics) ELSE failAt - 1
    IN  [i \in 1..n |-> MetricRow("default", "deviceA1", metrics[i].name, now,
                                  metrics[i].value)]

\* handle_metric_extraction(tenant_id, device_id, payload, state)
HandleMetricExtraction ==
    /\ tsCall = NoTsCall
    /\ \E payload \in TelemetryPayloads :
          LET maybe_config == GetDataConfig(data_configs, "default", TelemetryDevice)
              metrics == IF maybe_config = <<>> \/ payload = InvalidJson THEN <<>>
                         ELSE ExtractMetrics(maybe_config[1], payload)
          IN  \E failAt \in 0..Len(metrics) :
                /\ timeseries_data' = timeseries_data \o PutMetrics(metrics, failAt)
                /\ tsCall' = [op |-> "handle_metric_extraction", payload |-> payload,
                              result |-> IF payload = InvalidJson THEN "InvalidJson"
                                         ELSE IF failAt # 0 THEN "DatabaseError"
                                         ELSE "Ok"]
    /\ UNCHANGED <<now, dataVars>>
    /\ SeriesUnchanged

TelemetryNext == HandleMetricExtraction

SpecTelemetry == TelemetryInit /\ [][TelemetryNext]_vars

IsNum(j) == j.t = "num"
\* a value the data type takes, in the words of the telemetry handler's table
Compatible(data_type, j) ==
    IF data_type \in {"Float", "Int"} THEN IsNum(j)
    ELSE IF data_type = "LocationObject"
    THEN j.t = "obj" /\ {"lat", "long"} \subseteq DOMAIN j.v
            /\ IsNum(j.v["lat"]) /\ IsNum(j.v["long"])
    ELSE j.t = "arr" /\ Len(j.v) = 2 /\ IsNum(j.v[1]) /\ IsNum(j.v[2])

\* the indices of the metrics of the effective config whose pointer resolves
\* in the payload to a compatible value
WrittenMetrics(cfg, payload) ==
    {i \in DOMAIN cfg :
        /\ cfg[i].point.json_pointer \in DOMAIN payload.v
        /\ Compatible(cfg[i].point.data_type, payload.v[cfg[i].point.json_pointer])}

\* C33: for each MetricConfig of the effective config the telemetry handler
\* writes one point exactly when the JSON pointer resolves to a value
\* compatible with the data type (a number for Float and Int, an object with
\* numeric lat and long for LocationObject, a 2-element numeric array for
\* LocationTuple); other metrics are skipped without error and do not keep
\* the rest from being written.
C33_WritesCompatibleMetrics ==
    (/\ tsCall.op = "handle_metric_extraction"
     /\ tsCall.result # "DatabaseError"
     /\ tsCall.payload # InvalidJson
     /\ data_configs # {}) =>
        LET cfg == (CHOOSE r \in data_configs : TRUE).config
            W == WrittenMetrics(cfg, tsCall.payload)
        IN  /\ tsCall.result = "Ok"
            /\ Len(timeseries_data) = Cardinality(W)
            /\ \A i \in W :
                  Cardinality({k \in DOMAIN timeseries_data :
                                  timeseries_data[k].metric_name = cfg[i].name})
                    = Cardinality({j \in W : cfg[j].name = cfg[i].name})

\* C33 with LocationTuple taking every array whose first two elements are numbers
C33_WritesConvertibleMetrics ==
    (/\ tsCall.op = "handle_metric_extraction"
     /\ tsCall.result # "DatabaseError"
     /\ tsCall.payload # InvalidJson
     /\ data_configs # {}
     /\ \A k \in DOMAIN tsCall.payload.v :
            tsCall.payload.v[k] # JArr(<<JNum(1), JNum(2), JNum(3)>>)) =>
        C33_WritesCompatibleMetrics

(***************************************************************************)
(* Specification SpecProvision: up to MaxProvisions concurrent requests    *)
(* POST /<tenant>/devices/<device>.  The handler calls create_device       *)
(* (get_device_metadata, create_client_cert, put_device_metadata) and then *)
(* put_device_metadata once more; each Store call is one step.  The        *)
(* certificate and key a call generates are named by the call.             *)
(***************************************************************************)
ProvisionInit ==
    /\ StoreIdle
    /\ EngineIdle
    /\ AdapterIdle
    /\ CancelIdle
    /\ NothingDispatched
    /\ NothingClassified
    /\ config = DefaultProcessorConfig
    /\ ExtraIdle

ProvisionUnchanged ==
    UNCHANGED <<engineVars, now, storeVars, authVars, chanVars, handlerRun, inVars,
                cancelVars, dispatchVars, topicVars, monitorVars, dataVars, seriesVars,
                httpVars>>

\* DeviceMetadata::new(device_id, tenant_id).with_credentials(cert, key)
DeviceMetadata(key, c) ==
    [device_id |-> key[2], tenant_id |-> key[1], certificate |-> c, key |-> c]

\* create_device: existing_device.is_some()
AlreadyExists(table, key) == table[key] # NoMetadata

\* put_device_metadata: DELETE the row of the key and INSERT the new one, in
\* one transaction
PutDeviceMetadata(table, metadata) ==
    [table EXCEPT ![<<metadata.tenant_id, metadata.device_id>>] = metadata]

\* create_device up to its check: Conflict when the device has metadata
CreateDeviceCheck(c) ==
    /\ provision[c].pc = "idle"
    /\ \E key \in DeviceKeys :
          provision' = [provision EXCEPT ![c] =
              [pc |-> IF AlreadyExists(device_metadata, key) THEN "Conflict" ELSE "checked",
               key |-> key]]
    /\ UNCHANGED device_metadata
    /\ ProvisionUnchanged

\* create_device after its check: create_client_cert, put_device_metadata
CreateDevicePut(c) ==
    /\ provision[c].pc = "checked"
    /\ device_metadata' = PutDeviceMetadata(device_metadata, DeviceMetadata(provision[c].key, c))
    /\ provision' = [provision EXCEPT ![c].pc = "created"]
    /\ ProvisionUnchanged

\* the handler after create_device: put_device_metadata again, Ok(Json(metadata))
CreateDeviceHandlerPut(c) ==
    /\ provision[c].pc = "created"
    /\ device_metadata' = PutDeviceMetadata(device_metadata, DeviceMetadata(provision[c].key, c))
    /\ provision' = [provision EXCEPT ![c].pc = "Ok"]
    /\ ProvisionUnchanged

ProvisionNext ==
    \E c \in ProvisionCalls :
        CreateDeviceCheck(c) \/ CreateDevicePut(c) \/ CreateDeviceHandlerPut(c)

SpecProvision == ProvisionInit /\ [][ProvisionNext]_vars

\* the calls on a key that have written metadata
Provisioned(key) ==
    {c \in ProvisionCalls : provision[c].pc \in {"created", "Ok"} /\ provision[c].key = key}

\* C34: provisioning never overwrites device metadata: of the provisioning
\* requests for one (tenant_id, device_id), concurrent ones included, at most
\* one gets past the existence check and writes, every other one returns
\* Conflict, and the stored certificate and key stay those of the first.
C34_ProvisionNeverOverwrites ==
    \A key \in DeviceKeys : Cardinality(Provisioned(key)) <= 1

\* C34 for requests that start after every earlier request on the device has
\* been answered: a request that finds metadata returns Conflict and changes
\* nothing
C34_ConflictLeavesMetadata ==
    [][\A c \in ProvisionCalls :
          (provision[c].pc = "idle" /\ provision'[c].pc # "idle"
              /\ device_metadata[provision'[c].key] # NoMetadata) =>
                (provision'[c].pc = "Conflict" /\ device_metadata' = device_metadata)]_vars

(***************************************************************************)
(* The frame of the merge, under SpecEngine.                               *)
(***************************************************************************)
\* the patch names the path p or a prefix of it: it sets, deletes or replaces
\* the value at p
RECURSIVE Mentions(_, _)
Mentions(patch, p) ==
    IF IsNull(patch) THEN FALSE
    ELSE IF ~IsObj(patch) \/ p = <<>> THEN TRUE
    ELSE /\ Head(p) \in DOMAIN patch.v
         /\ (IsNull(patch.v[Head(p)]) \/ Mentions(patch.v[Head(p)], Tail(p)))

Sides == {"reported", "desired"}

\* C35: a merge changes only the paths named in the patch: every leaf of the
\* state before the update that the patch does not mention, at any depth,
\* keeps its value and its metadata timestamp, and an update whose reported
\* (or desired) side is null leaves that side of the state and of the
\* metadata as it was.
C35_MergeFrame ==
    (lastUpdate # NoUpdate /\ lastResult = "ok") =>
        \A side \in Sides :
            LET patch == lastUpdate.state[side]
            IN  /\ IsNull(patch) =>
                      /\ shadow.state[side] = prevShadow.state[side]
                      /\ shadow.metadata[side] = prevShadow.metadata[side]
                /\ \A p \in DocLeaves(prevShadow.state[side]) :
                      ~Mentions(patch, p) =>
                          /\ ValAt(shadow.state[side], p) = ValAt(prevShadow.state[side], p)
                          /\ ValAt(shadow.metadata[side], p) = ValAt(prevShadow.metadata[side], p)

\* the second update sets a.x alone, a second later: a.y and b keep their
\* value and their timestamp
C35_Witness ==
    /\ lastResult = "ok"
    /\ shadow.version = 2
    /\ lastUpdate.state.reported = JObj([k \in {"a"} |-> JObj([i \in {"x"} |-> JNum(2)])])
    /\ ValAt(prevShadow.state.reported, <<"a", "x">>) = JNum(1)
    /\ ValAt(shadow.state.reported, <<"a", "x">>) = JNum(2)
    /\ ValAt(shadow.state.reported, <<"a", "y">>) = JNum(1)
    /\ ValAt(shadow.state.reported, <<"b">>) = JNum(1)
    /\ ValAt(shadow.metadata.reported, <<"a", "x">>) = JNum(2)
    /\ ValAt(shadow.metadata.reported, <<"a", "y">>) = JNum(1)
    /\ ValAt(shadow.metadata.reported, <<"b">>) = JNum(1)

(***************************************************************************)
(* Specification SpecOrder: shadow updates on the admin stream.            *)
(* run_stream_worker hands every publish to a task of its own              *)
(* (tokio::spawn) and turns to the next publish without waiting; the       *)
(* runtime has 10 worker threads, so the tasks of two publishes run side   *)
(* by side.  Inside a task _upsert_shadow is awaited and the delta is      *)
(* published after it; each _upsert_shadow runs alone here.                *)
(***************************************************************************)
MaxOrderMessages == 2

OrderTopics ==
    {Join(<< <<"things">>, <<"dev1">>, <<"shadow">>, <<"update">> >>),
     Join(<< <<"things">>, <<"acme", Dot, "dev1">>, <<"shadow">>, <<"main">>, <<"update">> >>)}
OrderPayloads ==
    {[kind |-> "json", reported |-> JNull, desired |-> JObj([k \in {"a"} |-> JNum(1)])],
     [kind |-> "json", reported |-> JNull, desired |-> JObj([k \in {"a"} |-> JNum(2)])],
     [kind |-> "json", reported |-> JObj([k \in {"a"} |-> JNum(1)]), desired |-> JNull]}
OrderMessages == [topic_utf8 : {TRUE}, topic : OrderTopics, payload : OrderPayloads]

\* the shadow _upsert_shadow stores for update document u on key k
Upserted(k, u) ==
    Update(IF shadows[k] = NoRow THEN NewShadow(k[2], k[3], k[1]) ELSE shadows[k], u, now)

\* process_update_document up to the return of _upsert_shadow: the shadow
\* is stored, and the task goes on to send_delta_to_mqtt with the shadow the
\* upsert returned
UpsertStep ==
    \E t \in pending, storeOk \in BOOLEAN :
        LET k == ShadowKey(dispatched[t.id].type)
            u == StateUpdateDocument(k[2], k[3], k[1], t.payload.reported, t.payload.desired)
        IN /\ t.handler = "shadow_update"
           /\ IF t.payload.kind # "json" \/ ~storeOk
              THEN /\ pending' = pending \ {t}
                   /\ handlerErrors' = handlerErrors + 1
                   /\ UNCHANGED <<shadows, returns>>
              ELSE /\ shadows' = [shadows EXCEPT ![k] = Upserted(k, u)]
                   /\ returns' = [returns EXCEPT ![k] = Append(@, Upserted(k, u).version)]
                   /\ pending' = (pending \ {t}) \cup
                                    {[id |-> t.id, handler |-> "send_delta",
                                      payload |-> Upserted(k, u)]}
                   /\ UNCHANGED handlerErrors
    /\ UNCHANGED <<engineVars, now, backend, tx, authVars, chanVars, handlerRun, inVars,
                   cancelVars, config, dispatched, topicVars, extraVars>>

\* process_update_document after the upsert: send_delta_to_mqtt on the
\* shadow the upsert returned
SendDeltaStep ==
    \E t \in pending :
        LET sent == SendDeltaToMqtt(t.payload, ShadowTopicPrefix, now)
        IN /\ t.handler = "send_delta"
           /\ pending' = pending \ {t}
           /\ IF sent.publish
              THEN /\ MqttSenderPublish("handler", sent.message)
                   /\ handlerErrors' = IF callers'["handler"] = "err"
                                       THEN handlerErrors + 1 ELSE handlerErrors
              ELSE UNCHANGED <<channel, callers, handlerErrors>>
    /\ UNCHANGED <<engineVars, now, storeVars, authVars, receiverAlive, messages_sent,
                   handlerRun, inVars, cancelVars, config, dispatched, topicVars, extraVars>>

\* handle_metric_extraction of the same publish: no data config is stored,
\* so a JSON payload writes nothing
MetricExtractionStep ==
    \E t \in pending :
        /\ t.handler = "metric_extraction"
        /\ pending' = pending \ {t}
        /\ handlerErrors' = IF t.payload.kind # "json" THEN handlerErrors + 1
                            ELSE handlerErrors
    /\ UNCHANGED <<engineVars, now, storeVars, authVars, chanVars, handlerRun, inVars,
                   cancelVars, config, dispatched, topicVars, extraVars>>

OrderNext ==
    \/ StreamWorkerStep(OrderMessages, MaxOrderMessages)
    \/ UpsertStep
    \/ SendDeltaStep
    \/ MetricExtractionStep

SpecOrder == DispatchInit /\ [][OrderNext]_vars

\* the row of key k after the first n publishes of the admin stream, applied
\* one after the other in the order received
RECURSIVE InOrder(_, _)
InOrder(k, n) ==
    IF n = 0 THEN NoRow
    ELSE LET before == InOrder(k, n - 1)
             d == dispatched[n]
         IN IF d.type.type = "ShadowUpdate" /\ ShadowKey(d.type) = k /\ d.payload.kind = "json"
            THEN Update(IF before = NoRow THEN NewShadow(k[2], k[3], k[1]) ELSE before,
                        StateUpdateDocument(k[2], k[3], k[1], d.payload.reported,
                                            d.payload.desired), now)
            ELSE before

\* every handler of every publish received has ended, none with an error
AllProcessed == pending = {} /\ handlerErrors = 0

\* C36: shadow updates published to the same shadow topic are applied in the
\* order the admin stream delivered them: once every update is processed the
\* stored shadow is the one the updates give when applied in that order, so
\* that no later-received update is overwritten by an earlier one.
C36_AppliedInReceiveOrder ==
    AllProcessed => \A k \in StoreKeys : shadows[k] = InOrder(k, Len(dispatched))

\* the versions of the deltas published on the delta topic of key k, in the
\* order of their publication
RECURSIVE DeltaVersions(_, _)
DeltaVersions(k, q) ==
    IF q = <<>> THEN <<>>
    ELSE LET m == Head(q).message
         IN IF m.topic = GetDeltaReturnTopic(k[2], k[3], ShadowTopicPrefix)
            THEN <<m.payload.version>> \o DeltaVersions(k, Tail(q))
            ELSE DeltaVersions(k, Tail(q))

\* C37: for each shadow the delta messages are published in increasing
\* version order, so that once every update is processed the last delta
\* published is the one of the final stored state.
C37_DeltasInVersionOrder ==
    \A k \in StoreKeys :
        LET vs == DeltaVersions(k, channel)
        IN /\ \A i, j \in DOMAIN vs : i < j => vs[i] < vs[j]
           /\ (AllProcessed /\ vs # <<>>) => vs[Len(vs)] = shadows[k].version

(***************************************************************************)
(* Specification SpecTenant: one client connects, is accepted by auth      *)
(* under a tenant, and publishes; the broker hands each publish to the     *)
(* processor on the admin stream together with the client's ClientInfo,    *)
(* which run_stream_worker drops (let _ = client_info.client_id).          *)
(***************************************************************************)
MaxTenantMessages == 2

TenantTopics ==
    {Join(<< <<"things">>, <<"dev1">>, <<"shadow">>, <<"update">> >>),
     Join(<< <<"things">>, <<"acme", Dot, "dev1">>, <<"shadow">>, <<"main">>, <<"update">> >>),
     Join(<< <<"things">>, <<"dev1">>, <<"data">> >>),
     Join(<< <<"things">>, <<"acme", Dot, "dev1">>, <<"data">> >>)}
TenantMessages ==
    [topic_utf8 : {TRUE}, topic : TenantTopics,
     payload : {[kind |-> "json", reported |-> JObj([k \in {"a"} |-> JNum(1)]),
                 desired |-> JNull]}]

\* the client of this run is connected: its CONNECT was accepted
Connected == authCall # NoCall /\ authCall.result.kind = "accept"

\* the CONNECT of the client: the broker calls auth
Connect ==
    /\ ~Connected
    /\ Auth

\* the connected client publishes, and the stream worker takes the publish
ClientPublish ==
    /\ Connected
    /\ StreamWorkerStep(TenantMessages, MaxTenantMessages)

TenantNext == StartBroker \/ Connect \/ ClientPublish \/ HandlerRun

SpecTenant == DispatchInit /\ [][TenantNext]_vars

\* C38: a message published by a client that was accepted under tenant T
\* only modifies shadows and time series of tenant T: the tenant the shadow
\* handler and the telemetry handler are given for a publish is the tenant of
\* the client that published it, and every stored shadow is of that tenant.
C38_TenantIsolation ==
    Connected =>
        /\ \A i \in DOMAIN dispatched :
              dispatched[i].type.type \in {"ShadowUpdate", "DataUpdate"} =>
                  dispatched[i].type.tenant = <<authCall.result.tenant>>
        /\ \A k \in StoreKeys : shadows[k] # NoRow => k[1] = authCall.result.tenant

(***************************************************************************)
(* Specification SpecLoop: the processor's own publishes come back.  The   *)
(* broker delivers every publish on the admin stream, those of the         *)
(* processor's MqttSender included; a delta or a time response is then     *)
(* classified by get_topic_type like any other publish.                    *)
(***************************************************************************)
MaxLoopMessages == 1
MaxEchoes == 2

LoopDevices == {<<"dev1">>, <<"acme", Dot, "dev1">>, <<"update">>, <<"acme", Dot, "shadow">>}
LoopShadowNames == {<<"main">>, <<"update">>, <<"delta">>}
LoopTopics ==
    {Join(<< <<"things">>, d, <<"shadow">>, <<"update">> >>) : d \in LoopDevices} \cup
    {Join(<< <<"things">>, d, <<"shadow">>, n, <<"update">> >>) :
        d \in LoopDevices, n \in LoopShadowNames}
LoopMessages ==
    [topic_utf8 : {TRUE}, topic : LoopTopics,
     payload : {[kind |-> "json", reported |-> JNull,
                 desired |-> JObj([k \in {"a"} |-> JNum(2)])]}]
LoopKeys ==
    {"default", "acme"} \X {"dev1", "update", "shadow"} \X {"default", "main", "update", "delta"}

\* telemetry_topics: the default, none, and patterns that a delta topic matches
LoopConfigs ==
    [shadow_topic_prefix : {<<"things", Slash>>},
     telemetry_topics :
        {<< <<"things", Slash, Plus, Slash, "data">> >>,
         <<>>,
         << <<"things", Slash, Plus, Slash, "shadow", Slash, "update", Slash, "delta">> >>,
         << <<"things", Slash, Plus, Slash, Plus, Slash, Plus, Slash, Plus>>,
            <<Plus, Slash, Plus, Slash, Plus, Slash, Plus, Slash, Plus, Slash, Plus>> >>}]

LoopInit ==
    /\ backend = "sqlite"
    /\ shadows = [k \in LoopKeys |-> NoRow]
    /\ tx = [t \in Calls |-> IdleCall]
    /\ returns = [k \in LoopKeys |-> <<>>]
    /\ ExtraIdle
    /\ EngineIdle
    /\ AdapterIdle
    /\ CancelIdle
    /\ NothingDispatched
    /\ NothingClassified
    /\ config \in LoopConfigs

\* the topic of a publish of the processor, as the string the broker delivers
TopicString(t) == <<"things", Slash>> \o Join([i \in 1..(Len(t) - 1) |-> <<t[i + 1]>>])

\* a publish of the processor as it arrives on the admin stream: a delta
\* envelope or a time response has no state.reported and no state.desired
EchoMessage(m) ==
    [topic_utf8 |-> TRUE, topic |-> TopicString(m.topic),
     payload |-> [kind |-> "json", reported |-> JNull, desired |-> JNull]]

\* a device publishes a shadow update
DevicePublish == StreamWorkerStep(LoopMessages, MaxLoopMessages)

\* a publish of the processor comes back on the admin stream
Echo ==
    StreamWorkerStep({EchoMessage(channel[i].message) : i \in DOMAIN channel},
                     MaxLoopMessages + MaxEchoes)

LoopNext == DevicePublish \/ Echo \/ HandlerRun

SpecLoop == LoopInit /\ [][LoopNext]_vars

\* the handlers that publish
Publishing == {"shadow_update", "time_request"}

\* the publishes received on a topic the processor has published on
OwnTopic(topic) == \E i \in DOMAIN channel : TopicString(channel[i].message.topic) = topic

\* C39: a message the processor itself published (a shadow delta, a time
\* response) never causes a further publish when it comes back on the admin
\* stream, for every shadow name, device id and telemetry_topics
\* configuration: it starts no handler that publishes, so the processor has
\* published at most once per handler started for a device's own message.
C39_NoPublishFromOwnMessages ==
    /\ \A i \in DOMAIN dispatched :
          OwnTopic(dispatched[i].topic) => dispatched[i].handlers \cap Publishing = {}
    /\ Len(channel) <= Cardinality({i \in DOMAIN dispatched :
                                       /\ ~OwnTopic(dispatched[i].topic)
                                       /\ dispatched[i].handlers \cap Publishing # {}})

\* the delta of the default shadow of device "shadow" came back twice under
\* a configuration whose telemetry pattern matches it: it was handled as
\* telemetry, and the one delta is all that was published
C39_Witness ==
    /\ Len(dispatched) = 3
    /\ pending = {}
    /\ dispatched[1].type = ShadowUpdate([tenant |-> <<"acme">>, device |-> <<"shadow">>],
                                         <<"default">>)
    /\ dispatched[2].topic = Join(<< <<"things">>, <<"shadow">>, <<"shadow">>, <<"update">>,
                                     <<"delta">> >>)
    /\ dispatched[2].type.type = "DataUpdate"
    /\ dispatched[3].topic = dispatched[2].topic
    /\ Len(channel) = 1
    /\ shadows[<<"acme", "shadow", "default">>].version = 1

(***************************************************************************)
(* Specification SpecHttp: the routes GET, POST and DELETE                 *)
(* /<tenant>/things/<device>/shadow[?name=..] of the HTTP API, each        *)
(* request served alone.                                                   *)
(***************************************************************************)
\* the updates served per shadow
MaxHttpUpdates == 1

HttpKeys == {"default", "acme"} \X {"dev1"} \X {"default", "main"}
\* the query parameter name: absent, or a shadow name
HttpNames == {<<>>, <<"main">>}
HttpBodies == {[reported |-> JObj([i \in {"a"} |-> JNum(2)]), desired |-> JNull],
               [reported |-> JNull, desired |-> JObj([i \in {"a"} |-> JNum(2)])]}

HttpInit ==
    /\ backend = "sqlite"
    /\ shadows \in {[k \in HttpKeys |-> NoRow], [k \in HttpKeys |-> FirstRow(k)]}
    /\ tx = [t \in Calls |-> IdleCall]
    /\ returns = [k \in HttpKeys |-> <<>>]
    /\ EngineIdle
    /\ BrokerIdle

\* the shadow name of a request: ShadowName::from_str(name), or Default
ShadowNameOf(name) == IF name = <<>> THEN "default" ELSE TenantIdFromStr(name[1])

\* the tenant the handlers would use, were they to read it from the path
PathTenant(tenant_id) == TenantIdFromStr(tenant_id)

\* the tenant the three handlers hand to the Store: the path's tenant is
\* bound to _tenant_id and not used
HandlerTenant(tenant_id) == "default"

HttpRequest(method, tenant_id, device_id, name) ==
    [method |-> method, tenant_id |-> tenant_id, device_id |-> device_id,
     shadow_name |-> ShadowNameOf(name)]

HttpUnchanged ==
    UNCHANGED <<engineVars, now, backend, tx, authVars, receiverAlive, messages_sent,
                handlerRun, inVars, cancelVars, dispatchVars, topicVars, monitorVars,
                dataVars, seriesVars, provisionVars>>

\* get_shadow_handler
GetShadowHandler ==
    /\ \E tenant_id \in Tenants, name \in HttpNames, dbOk \in BOOLEAN :
          LET req == HttpRequest("GET", tenant_id, "dev1", name)
              k == <<HandlerTenant(tenant_id), req.device_id, req.shadow_name>>
          IN httpCall' = [req |-> req, before |-> shadows,
                          status |-> IF ~dbOk THEN "DatabaseError"
                                     ELSE IF shadows[k] = NoRow THEN "NotFound" ELSE "Ok",
                          body |-> IF dbOk THEN shadows[k] ELSE NoRow]
    /\ UNCHANGED <<shadows, returns, channel, callers>>
    /\ HttpUnchanged

\* update_shadow_handler: _upsert_shadow, then the delta when the request
\* has send_delta
UpdateShadowHandler ==
    /\ \E tenant_id \in Tenants, name \in HttpNames, body \in HttpBodies,
          send_delta \in BOOLEAN, dbOk \in BOOLEAN :
          LET req == HttpRequest("POST", tenant_id, "dev1", name)
              k == <<HandlerTenant(tenant_id), req.device_id, req.shadow_name>>
              u == StateUpdateDocument(k[2], k[3], k[1], body.reported, body.desired)
              row == IF shadows[k] = NoRow THEN NewShadow(k[2], k[3], k[1]) ELSE shadows[k]
              updated == Update(row, u, now)
              sent == SendDeltaToMqtt(updated, ShadowTopicPrefix, now)
          IN IF ~dbOk
             THEN /\ httpCall' = [req |-> req, before |-> shadows,
                                  status |-> "DatabaseError", body |-> NoRow]
                  /\ UNCHANGED <<shadows, returns, channel, callers>>
             ELSE /\ Len(returns[k]) < MaxHttpUpdates
                  /\ shadows' = [shadows EXCEPT ![k] = updated]
                  /\ returns' = [returns EXCEPT ![k] = Append(@, updated.version)]
                  /\ httpCall' = [req |-> req, before |-> shadows, status |-> "Ok",
                                  body |-> updated]
                  /\ IF send_delta /\ sent.publish
                     THEN MqttSenderPublish("handler", sent.message)
                     ELSE UNCHANGED <<channel, callers>>
    /\ HttpUnchanged

\* delete_shadow_handler
DeleteShadowHandler ==
    /\ \E tenant_id \in Tenants, name \in HttpNames, dbOk \in BOOLEAN :
          LET req == HttpRequest("DELETE", tenant_id, "dev1", name)
              k == <<HandlerTenant(tenant_id), req.device_id, req.shadow_name>>
          IN /\ httpCall' = [req |-> req, before |-> shadows,
                             status |-> IF dbOk THEN "Ok" ELSE "DatabaseError",
                             body |-> NoRow]
             /\ shadows' = IF dbOk THEN DeleteShadowRows(shadows, k) ELSE shadows
    /\ UNCHANGED <<returns, channel, callers>>
    /\ HttpUnchanged

HttpNext == GetShadowHandler \/ UpdateShadowHandler \/ DeleteShadowHandler

SpecHttp == HttpInit /\ [][HttpNext]_vars

\* the key of table shadows a request's path and query name
PathKey(req) == <<PathTenant(req.tenant_id), req.device_id, req.shadow_name>>

\* C40: GET, POST and DELETE /<tenant>/things/<device>/shadow read, update
\* and delete the shadow stored under the tenant named in the path, and never
\* another tenant's: a request the Store answers leaves every row but that of
\* its path's key as it was, GET returns that row (NotFound without one),
\* POST returns the shadow it stored in that row, DELETE leaves no such row.
C40_PathTenantShadow ==
    (httpCall # NoHttpCall /\ httpCall.status # "DatabaseError") =>
        LET req == httpCall.req
            key == PathKey(req)
        IN /\ \A k \in HttpKeys \ {key} : shadows[k] = httpCall.before[k]
           /\ req.method = "GET" =>
                 /\ httpCall.body = shadows[key]
                 /\ httpCall.status = (IF shadows[key] = NoRow THEN "NotFound" ELSE "Ok")
           /\ req.method = "POST" =>
                 /\ httpCall.body = shadows[key]
                 /\ shadows[key].tenant_id = key[1]
           /\ req.method = "DELETE" => shadows[key] = NoRow

====
